---------------------------- MODULE Spec2Model ----------------------------
(***************************************************************************)
(* Model of qr-encrypt (cordx56/qr-encrypt): the age/X25519 encryption     *)
(* envelope of the worker (src/src/worker.rs), the scanned-input           *)
(* classifier (src/src/lib.rs, process_qr_data) and the WebRTC session     *)
(* with its application handshake (src/src/rtc.rs, src/src/lib.rs).        *)
(*                                                                         *)
(* Strings are sequences of bytes (Rust's str is UTF-8 and len() counts    *)
(* bytes).  The libraries the repository calls (base64, bech32 key         *)
(* strings, the age file format) are modelled by small executable          *)
(* stand-ins that keep the properties the code relies on: STANDARD base64  *)
(* is the real encoding; key strings carry a prefix, a fixed length, a     *)
(* restricted character set and a checksum; an age file carries a magic,   *)
(* a recipient stanza that only the matching identity unwraps, and an      *)
(* authenticated payload.                                                  *)
(***************************************************************************)
EXTENDS Integers, Sequences, FiniteSets, TLC

(***************************************************************************)
(* Bounds of the model                                                     *)
(***************************************************************************)
\* number of distinct key pairs
NumKeys == 2
\* nonces the randomised encryption draws from: 0..MaxNonce
MaxNonce == 1
\* nonces the worker of an installation in a session draws from:
\* 0..MaxSessionNonce
MaxSessionNonce == 0
\* connections the two installations create in a run
MaxConns == 2
\* chat messages the users send in a run
MaxChat == 1
\* presses of "Send My Public Key" in a run
MaxKeySends == 1
\* connections created in a run of the signalling specification
MaxSessions == 3
\* things the users do in a run of the signalling specification
MaxSignalActions == 4
\* signals a user pastes that the other installation did not make
MaxPastes == 1
\* PublicKey envelopes the other end sends beyond its own
MaxInjected == 2
\* things the two users do in a run (buttons pressed, QR codes read)
MaxUserActions == 7
\* changes the network makes to connections it has established, in a run
MaxNetworkChanges == 1
\* the things done with messages and keys in a run beside a session
MaxAppActions == 3
\* the things done with contacts in a run
MaxContactActions == 5
\* what the users do after loading
MaxLoadActions == 2
\* connections there are in a run that starts with an established session
MaxRestartConns == 4
\* things the users do in such a run
MaxRestartActions == 4

\* the strings the other end puts on the channel in SpecInbound
MaxInbound == 2

\* what the users do in a run of SpecReject, and the events the page
\* dispatches
MaxRejectActions == 4
MaxDispatched == 1

\* the connections of a run of SpecHandler, and what its users do
MaxHandlerConns == 5
MaxHandlerActions == 5

(***************************************************************************)
(* Byte strings                                                            *)
(***************************************************************************)
\* the sum of s[lo..hi], by halves
RECURSIVE SumRange(_, _, _)
SumRange(s, lo, hi) ==
    IF lo > hi THEN 0
    ELSE IF lo = hi THEN s[lo]
    ELSE LET mid == (lo + hi) \div 2
         IN  SumRange(s, lo, mid) + SumRange(s, mid + 1, hi)

SumSeq(s) == SumRange(s, 1, Len(s))

Rep(c, n) == [i \in 1..n |-> c]

\* s without its last byte
Truncated(s) == SubSeq(s, 1, Len(s) - 1)

\* the continuation bytes of UTF-8: 10xxxxxx
IsContinuation(b) == b >= 128 /\ b <= 191

\* str::is_char_boundary(idx), idx counted from 0
is_char_boundary(s, idx) ==
    \/ idx = 0
    \/ idx = Len(s)
    \/ idx < Len(s) /\ ~IsContinuation(s[idx + 1])

\* the number of continuation bytes a leading byte announces, -1 for a
\* byte that cannot lead
Utf8Follow(b) ==
    IF b < 128 THEN 0
    ELSE IF b >= 194 /\ b <= 223 THEN 1
    ELSE IF b >= 224 /\ b <= 239 THEN 2
    ELSE IF b >= 240 /\ b <= 244 THEN 3
    ELSE -1

\* String::from_utf8 succeeds: every byte leads a character that is
\* complete, or continues the character of a leading byte before it
IsUtf8(b) ==
    \A i \in 1..Len(b) :
        IF IsContinuation(b[i])
        THEN \E d \in 1..3 :
                /\ i - d >= 1
                /\ Utf8Follow(b[i - d]) >= d
                /\ \A e \in 1..(d - 1) : IsContinuation(b[i - e])
        ELSE /\ Utf8Follow(b[i]) >= 0
             /\ i + Utf8Follow(b[i]) <= Len(b)
             /\ \A e \in 1..Utf8Follow(b[i]) : IsContinuation(b[i + e])

(***************************************************************************)
(* base64::engine::general_purpose::STANDARD: the standard alphabet,       *)
(* padding written on encode and required (canonical) on decode, trailing  *)
(* bits of the last symbol required to be zero.                            *)
(***************************************************************************)
PadChar == 61

\* the symbol of a sextet 0..63
B64Char(v) ==
    IF v < 26 THEN 65 + v
    ELSE IF v < 52 THEN 71 + v
    ELSE IF v < 62 THEN v - 4
    ELSE IF v = 62 THEN 43 ELSE 47

\* the sextet of a symbol, -1 for a byte outside the alphabet
B64Val(c) ==
    IF c >= 65 /\ c <= 90 THEN c - 65
    ELSE IF c >= 97 /\ c <= 122 THEN c - 71
    ELSE IF c >= 48 /\ c <= 57 THEN c + 4
    ELSE IF c = 43 THEN 62
    ELSE IF c = 47 THEN 63
    ELSE -1

\* BASE64.encode
Base64Encode(b) ==
    LET n == Len(b)
        groups == (n + 2) \div 3
        byte(i) == IF i <= n THEN b[i] ELSE 0
        sextet(g, pos) ==
            LET b0 == byte(3 * g + 1)
                b1 == byte(3 * g + 2)
                b2 == byte(3 * g + 3)
            IN  IF pos = 0 THEN b0 \div 4
                ELSE IF pos = 1 THEN (b0 % 4) * 16 + (b1 \div 16)
                ELSE IF pos = 2 THEN (b1 % 16) * 4 + (b2 \div 64)
                ELSE b2 % 64
    IN  [j \in 1..(4 * groups) |->
            LET g == (j - 1) \div 4
                pos == (j - 1) % 4
            IN  IF pos = 2 /\ 3 * g + 2 > n THEN PadChar
                ELSE IF pos = 3 /\ 3 * g + 3 > n THEN PadChar
                ELSE B64Char(sextet(g, pos))]

\* number of '=' at the end of s (3 stands for "three or more")
B64PadCount(s) ==
    LET L == Len(s)
    IN  IF L >= 1 /\ s[L] = PadChar
        THEN IF L >= 2 /\ s[L - 1] = PadChar
             THEN IF L >= 3 /\ s[L - 2] = PadChar THEN 3 ELSE 2
             ELSE 1
        ELSE 0

\* BASE64.decode: [ok |-> whether it is Ok, bytes |-> the decoded bytes]
Base64Decode(s) ==
    LET L == Len(s)
        npad == B64PadCount(s)
        body == L - npad
        wellFormed ==
            /\ L % 4 = 0
            /\ npad <= 2
            /\ \A i \in 1..body : B64Val(s[i]) >= 0
            /\ npad = 1 => B64Val(s[body]) % 4 = 0
            /\ npad = 2 => B64Val(s[body]) % 16 = 0
        val(i) == IF i <= body THEN B64Val(s[i]) ELSE 0
        n == 3 * (L \div 4) - npad
        out(k) ==
            LET g == (k - 1) \div 3
                pos == (k - 1) % 3
                s0 == val(4 * g + 1)
                s1 == val(4 * g + 2)
                s2 == val(4 * g + 3)
                s3 == val(4 * g + 4)
            IN  IF pos = 0 THEN s0 * 4 + (s1 \div 16)
                ELSE IF pos = 1 THEN (s1 % 16) * 16 + (s2 \div 4)
                ELSE (s2 % 4) * 64 + s3
    IN  IF wellFormed
        THEN [ok |-> TRUE, bytes |-> [k \in 1..n |-> out(k)]]
        ELSE [ok |-> FALSE, bytes |-> <<>>]

(***************************************************************************)
(* Key strings of age::x25519.  A key is 32 bytes, written as 52 symbols   *)
(* of 5 bits followed by a 6-symbol checksum, after a human-readable       *)
(* prefix and the separator '1': "age1..." for a Recipient (lower case),   *)
(* "AGE-SECRET-KEY-1..." for an Identity (upper case).  The checksum is a  *)
(* stand-in for the bech32 checksum: it rejects a string whose data was    *)
(* altered.                                                                *)
(***************************************************************************)
KeyDataLen == 52
ChecksumLen == 6

\* "qpzry9x8gf2tvdw0s3jn54khce6mua7l"
Bech32Charset ==
    << 113, 112, 122, 114, 121, 57, 120, 56, 103, 102, 50, 116, 118, 100,
       119, 48, 115, 51, 106, 110, 53, 52, 107, 104, 99, 101, 54, 109, 117,
       97, 55, 108 >>

ToUpper(c) == IF c >= 97 /\ c <= 122 THEN c - 32 ELSE c

\* "age"
RecipientHrp == << 97, 103, 101 >>
\* "AGE-SECRET-KEY-"
IdentityHrp ==
    << 65, 71, 69, 45, 83, 69, 67, 82, 69, 84, 45, 75, 69, 89, 45 >>
\* '1'
Bech32Separator == 49

Bech32Value(c, upper) ==
    LET hits == {v \in 0..31 :
                    (IF upper THEN ToUpper(Bech32Charset[v + 1])
                              ELSE Bech32Charset[v + 1]) = c}
    IN  IF hits = {} THEN -1 ELSE CHOOSE v \in hits : TRUE

Bech32ChecksumOf(sum) == [j \in 1..ChecksumLen |-> (sum + 7 * j) % 32]

Bech32Checksum(data) == Bech32ChecksumOf(SumSeq(data))

Bech32Encode(hrp, data, upper) ==
    LET sym(v) == IF upper THEN ToUpper(Bech32Charset[v + 1])
                           ELSE Bech32Charset[v + 1]
        all == data \o Bech32Checksum(data)
    IN  hrp \o << Bech32Separator >> \o [i \in 1..Len(all) |-> sym(all[i])]

\* [ok |-> the string is a key string with this prefix, data |-> its key]
Bech32Decode(hrp, s, upper) ==
    LET p == Len(hrp) + 1
        total == p + KeyDataLen + ChecksumLen
        shaped ==
            /\ Len(s) = total
            /\ SubSeq(s, 1, Len(hrp)) = hrp
            /\ s[p] = Bech32Separator
            /\ \A i \in (p + 1)..total : Bech32Value(s[i], upper) >= 0
        data == [i \in 1..KeyDataLen |-> Bech32Value(s[p + i], upper)]
        sum == [j \in 1..ChecksumLen |->
                    Bech32Value(s[p + KeyDataLen + j], upper)]
    IN  IF shaped /\ sum = Bech32Checksum(data)
        THEN [ok |-> TRUE, data |-> data]
        ELSE [ok |-> FALSE, data |-> <<>>]

\* the secret scalar of key pair k, as 5-bit symbols
SecretOf(k) == [i \in 1..KeyDataLen |-> (5 * k + i) % 32]

\* x25519::Identity::to_public: the public point of a secret scalar
ToPublic(secret) == [i \in 1..Len(secret) |-> (3 * secret[i] + 11) % 32]

\* Identity::to_string and Recipient::to_string
IdentityString(secret) == Bech32Encode(IdentityHrp, secret, TRUE)
RecipientString(public) == Bech32Encode(RecipientHrp, public, FALSE)

\* str::parse::<x25519::Recipient> and str::parse::<x25519::Identity>
ParseRecipient(s) == Bech32Decode(RecipientHrp, s, FALSE)
ParseIdentity(s) == Bech32Decode(IdentityHrp, s, TRUE)

Keys == 1..NumKeys
PrivateKeyOf(k) == IdentityString(SecretOf(k))
PublicKeyOf(k) == RecipientString(ToPublic(SecretOf(k)))

\* generate_key_pair_with_progress: (public_key, private_key) of a fresh key
generate_key_pair_with_progress(k) ==
    [public_key |-> RecipientString(ToPublic(SecretOf(k))),
     private_key |-> IdentityString(SecretOf(k))]

\* the key pairs of the run
KeyPairs == [k \in Keys |-> generate_key_pair_with_progress(k)]

\* generate_public_key_from_private
generate_public_key_from_private(private_key) ==
    LET identity == ParseIdentity(private_key)
    IN  IF ~identity.ok THEN [tag |-> "Err", val |-> <<>>]
        ELSE [tag |-> "Ok", val |-> RecipientString(ToPublic(identity.data))]

(***************************************************************************)
(* The age file: magic, one X25519 recipient stanza, the nonce, the        *)
(* payload encrypted under the key the stanza wraps, and the payload's     *)
(* authentication tag.  Only the identity whose public key the stanza was  *)
(* made for unwraps it.                                                    *)
(***************************************************************************)
\* "age"
AgeMagic == << 97, 103, 101 >>

AgeStanza(public, nonce) ==
    [i \in 1..Len(public) |-> (public[i] + nonce + i) % 32]

AgePad(public, nonce, i) == (public[1] + 17 * nonce + i) % 256

AgeTag(public, nonce, plain) ==
    (SumSeq(plain) + public[2] + nonce + Len(plain)) % 256

\* Encryptor::with_recipients(..).wrap_output / write_all / finish
AgeEncrypt(public, nonce, plain) ==
    AgeMagic
    \o AgeStanza(public, nonce)
    \o << nonce >>
    \o [i \in 1..Len(plain) |-> (plain[i] + AgePad(public, nonce, i)) % 256]
    \o << AgeTag(public, nonce, plain) >>

AgeHeaderLen == Len(AgeMagic) + KeyDataLen + 1

\* Decryptor::new: the header parses
AgeHeaderOk(bytes) ==
    /\ Len(bytes) >= AgeHeaderLen + 1
    /\ SubSeq(bytes, 1, Len(AgeMagic)) = AgeMagic

\* Decryptor::decrypt: the identity unwraps the stanza
AgeUnwraps(bytes, secret) ==
    LET nonce == bytes[AgeHeaderLen]
    IN  SubSeq(bytes, Len(AgeMagic) + 1, Len(AgeMagic) + KeyDataLen)
            = AgeStanza(ToPublic(secret), nonce)

\* the payload as the reader yields it
AgePayload(bytes, secret) ==
    LET nonce == bytes[AgeHeaderLen]
        n == Len(bytes) - AgeHeaderLen - 1
    IN  [i \in 1..n |->
            (bytes[AgeHeaderLen + i] + 256
                - AgePad(ToPublic(secret), nonce, i)) % 256]

\* read_to_end: the payload authenticates
AgeAuthentic(bytes, secret) ==
    bytes[Len(bytes)]
        = AgeTag(ToPublic(secret), bytes[AgeHeaderLen], AgePayload(bytes, secret))

(***************************************************************************)
(* worker.rs: encrypt_message and decrypt_message                          *)
(***************************************************************************)
\* encrypt_message without writer.finish(): the payload's tag is never
\* written
encrypt_message_unfinished(public_key, message, nonce) ==
    LET recipient == ParseRecipient(public_key)
    IN  IF ~recipient.ok THEN [tag |-> "Err", val |-> <<>>]
        ELSE [tag |-> "Ok",
              val |-> Base64Encode(
                         Truncated(AgeEncrypt(recipient.data, nonce, message)))]

\* encrypt_message that refuses an empty plaintext
encrypt_message_nonempty(public_key, message, nonce) ==
    LET recipient == ParseRecipient(public_key)
    IN  IF ~recipient.ok \/ message = <<>> THEN [tag |-> "Err", val |-> <<>>]
        ELSE [tag |-> "Ok",
              val |-> Base64Encode(AgeEncrypt(recipient.data, nonce, message))]

\* Result<String>: tag "Ok" with the ciphertext, or "Err"
encrypt_message(public_key, message, nonce) ==
    LET recipient == ParseRecipient(public_key)
    IN  IF ~recipient.ok THEN [tag |-> "Err", val |-> <<>>]
        ELSE [tag |-> "Ok",
              val |-> Base64Encode(AgeEncrypt(recipient.data, nonce, message))]

\* decrypt_message with the decryptor's failures propagated by `?`
decrypt_message_propagate(private_key, encrypted_message) ==
    LET identity == ParseIdentity(private_key)
        decoded == Base64Decode(encrypted_message)
        encrypted_bytes == decoded.bytes
    IN  IF ~identity.ok THEN [tag |-> "ErrKey", val |-> <<>>]
        ELSE IF ~decoded.ok THEN [tag |-> "ErrBase64", val |-> <<>>]
        ELSE IF ~AgeHeaderOk(encrypted_bytes) THEN [tag |-> "ErrDecrypt", val |-> <<>>]
        ELSE IF ~AgeUnwraps(encrypted_bytes, identity.data)
             THEN [tag |-> "ErrDecrypt", val |-> <<>>]
        ELSE IF ~AgeAuthentic(encrypted_bytes, identity.data)
             THEN [tag |-> "ErrDecrypt", val |-> <<>>]
        ELSE IF ~IsUtf8(AgePayload(encrypted_bytes, identity.data))
             THEN [tag |-> "ErrUtf8", val |-> <<>>]
        ELSE [tag |-> "OkSome",
              val |-> AgePayload(encrypted_bytes, identity.data)]

\* decrypt_message with String::from_utf8_lossy in place of from_utf8
decrypt_message_lossy(private_key, encrypted_message) ==
    LET identity == ParseIdentity(private_key)
        decoded == Base64Decode(encrypted_message)
        encrypted_bytes == decoded.bytes
    IN  IF ~identity.ok THEN [tag |-> "ErrKey", val |-> <<>>]
        ELSE IF ~decoded.ok THEN [tag |-> "ErrBase64", val |-> <<>>]
        ELSE IF ~AgeHeaderOk(encrypted_bytes) THEN [tag |-> "OkNone", val |-> <<>>]
        ELSE IF ~AgeUnwraps(encrypted_bytes, identity.data)
             THEN [tag |-> "OkNone", val |-> <<>>]
        ELSE IF ~AgeAuthentic(encrypted_bytes, identity.data)
             THEN [tag |-> "OkNone", val |-> <<>>]
        ELSE [tag |-> "OkSome",
              val |-> AgePayload(encrypted_bytes, identity.data)]

\* decrypt_message with a base64 failure turned into Ok(None)
decrypt_message_swallow(private_key, encrypted_message) ==
    LET identity == ParseIdentity(private_key)
        decoded == Base64Decode(encrypted_message)
        encrypted_bytes == decoded.bytes
    IN  IF ~identity.ok THEN [tag |-> "ErrKey", val |-> <<>>]
        ELSE IF ~decoded.ok THEN [tag |-> "OkNone", val |-> <<>>]
        ELSE IF ~AgeHeaderOk(encrypted_bytes) THEN [tag |-> "OkNone", val |-> <<>>]
        ELSE IF ~AgeUnwraps(encrypted_bytes, identity.data)
             THEN [tag |-> "OkNone", val |-> <<>>]
        ELSE IF ~AgeAuthentic(encrypted_bytes, identity.data)
             THEN [tag |-> "OkNone", val |-> <<>>]
        ELSE IF ~IsUtf8(AgePayload(encrypted_bytes, identity.data))
             THEN [tag |-> "ErrUtf8", val |-> <<>>]
        ELSE [tag |-> "OkSome",
              val |-> AgePayload(encrypted_bytes, identity.data)]

\* Result<Option<String>>: "OkSome" with the plaintext, "OkNone", or an
\* error: "ErrKey" (identity does not parse), "ErrBase64" (BASE64.decode
\* fails), "ErrUtf8" (String::from_utf8 fails)
decrypt_message(private_key, encrypted_message) ==
    LET identity == ParseIdentity(private_key)
        decoded == Base64Decode(encrypted_message)
        encrypted_bytes == decoded.bytes
    IN  IF ~identity.ok THEN [tag |-> "ErrKey", val |-> <<>>]
        ELSE IF ~decoded.ok THEN [tag |-> "ErrBase64", val |-> <<>>]
        ELSE IF ~AgeHeaderOk(encrypted_bytes) THEN [tag |-> "OkNone", val |-> <<>>]
        ELSE IF ~AgeUnwraps(encrypted_bytes, identity.data)
             THEN [tag |-> "OkNone", val |-> <<>>]
        ELSE IF ~AgeAuthentic(encrypted_bytes, identity.data)
             THEN [tag |-> "OkNone", val |-> <<>>]
        ELSE IF ~IsUtf8(AgePayload(encrypted_bytes, identity.data))
             THEN [tag |-> "ErrUtf8", val |-> <<>>]
        ELSE [tag |-> "OkSome",
              val |-> AgePayload(encrypted_bytes, identity.data)]

IsErr(r) == r.tag \in {"Err", "ErrKey", "ErrBase64", "ErrUtf8", "ErrDecrypt"}

(***************************************************************************)
(* serde_json, as far as the repository's wire types need it: a JSON       *)
(* string literal with its escapes, and an object written with its fields  *)
(* in declaration order.  The reader accepts what the writer produces      *)
(* (the fields in that order, no insignificant white space).               *)
(***************************************************************************)
Quote == 34
Backslash == 92

\* the bytes a string literal cannot hold as they are
JsonSpecial(c) == c = Quote \/ c = Backslash \/ c < 32

\* '0'..'9', 'a'..'f': the digit of a nibble, and the nibble of a digit
\* (-1 for a byte that is no hexadecimal digit)
HexDigit(v) == IF v < 10 THEN 48 + v ELSE 87 + v

HexValue(c) ==
    IF c >= 48 /\ c <= 57 THEN c - 48
    ELSE IF c >= 97 /\ c <= 102 THEN c - 87
    ELSE IF c >= 65 /\ c <= 70 THEN c - 55
    ELSE -1

\* the escape of one byte: \" \\ \b \t \n \f \r, \u00XX for the other
\* controls
JsonEscapeOf(c) ==
    IF c = Quote \/ c = Backslash THEN << Backslash, c >>
    ELSE IF c = 8 THEN << Backslash, 98 >>
    ELSE IF c = 9 THEN << Backslash, 116 >>
    ELSE IF c = 10 THEN << Backslash, 110 >>
    ELSE IF c = 12 THEN << Backslash, 102 >>
    ELSE IF c = 13 THEN << Backslash, 114 >>
    ELSE << Backslash, 117, 48, 48, HexDigit(c \div 16), HexDigit(c % 16) >>

\* the bytes lo..hi of s, escaped (by halves)
RECURSIVE JsonEscapeRange(_, _, _)
JsonEscapeRange(s, lo, hi) ==
    IF lo > hi THEN <<>>
    ELSE IF lo = hi
         THEN IF JsonSpecial(s[lo]) THEN JsonEscapeOf(s[lo]) ELSE << s[lo] >>
    ELSE JsonEscapeRange(s, lo, (lo + hi) \div 2)
         \o JsonEscapeRange(s, (lo + hi) \div 2 + 1, hi)

JsonEscape(s) == JsonEscapeRange(s, 1, Len(s))

\* a string as a JSON string literal
JsonString(s) == << Quote >> \o JsonEscape(s) \o << Quote >>

\* the backslashes that directly precede position k, from position i on
RECURSIVE BackslashRun(_, _, _)
BackslashRun(s, i, k) ==
    IF k - 1 < i THEN 0
    ELSE IF s[k - 1] # Backslash THEN 0
    ELSE 1 + BackslashRun(s, i, k - 1)

\* in the literal whose text starts at i, an escape sequence starts at k
JsonEscapeAt(s, i, k) ==
    k >= i /\ s[k] = Backslash /\ BackslashRun(s, i, k) % 2 = 0

\* the least member of a set of numbers, none if it is empty
Least(set, none) ==
    IF set = {} THEN none ELSE CHOOSE k \in set : \A m \in set : k <= m

\* the quote that closes the literal whose text starts at i, Len(s) + 1 if
\* there is none
JsonClosingQuote(s, i) ==
    Least({k \in i..Len(s) : s[k] = Quote /\ BackslashRun(s, i, k) % 2 = 0},
          Len(s) + 1)

\* the escape sequence that starts at k, in a literal closed at j, is one
\* serde_json reads into a byte
JsonEscapeOk(s, k, j) ==
    IF s[k + 1] = 117
    THEN /\ k + 5 < j
         /\ s[k + 2] = 48 /\ s[k + 3] = 48
         /\ HexValue(s[k + 4]) >= 0 /\ HexValue(s[k + 4]) < 8
         /\ HexValue(s[k + 5]) >= 0
    ELSE s[k + 1] \in {Quote, Backslash, 47, 98, 102, 110, 114, 116}

\* the byte it stands for
JsonEscaped(s, k) ==
    CASE s[k + 1] = 98 -> 8
      [] s[k + 1] = 116 -> 9
      [] s[k + 1] = 110 -> 10
      [] s[k + 1] = 102 -> 12
      [] s[k + 1] = 114 -> 13
      [] s[k + 1] = 117 -> 16 * HexValue(s[k + 4]) + HexValue(s[k + 5])
      [] OTHER -> s[k + 1]

\* what position k of the literal's text contributes to the string
JsonUnescapeAt(s, i, k) ==
    IF JsonEscapeAt(s, i, k) THEN << JsonEscaped(s, k) >>
    ELSE IF JsonEscapeAt(s, i, k - 1) THEN <<>>
    ELSE IF \E m \in 2..5 : JsonEscapeAt(s, i, k - m) /\ s[k - m + 1] = 117
         THEN <<>>
    ELSE << s[k] >>

\* the text lo..hi of the literal that starts at i, unescaped (by halves)
RECURSIVE JsonUnescape(_, _, _, _)
JsonUnescape(s, i, lo, hi) ==
    IF lo > hi THEN <<>>
    ELSE IF lo = hi THEN JsonUnescapeAt(s, i, lo)
    ELSE JsonUnescape(s, i, lo, (lo + hi) \div 2)
         \o JsonUnescape(s, i, (lo + hi) \div 2 + 1, hi)

\* reads the literal of s whose text is i..j-1
JsonReadTo(s, i, j) ==
    IF /\ j <= Len(s)
       /\ \A k \in i..(j - 1) :
             /\ s[k] >= 32
             /\ JsonEscapeAt(s, i, k) => JsonEscapeOk(s, k, j)
    THEN [ok |-> TRUE, val |-> JsonUnescape(s, i, i, j - 1), next |-> j + 1]
    ELSE [ok |-> FALSE, val |-> <<>>, next |-> j]

\* reads the rest of a string literal of s from position i (after the
\* opening quote): [ok, val |-> the string, next |-> position after it]
JsonReadString(s, i) == JsonReadTo(s, i, JsonClosingQuote(s, i))

\* s continues with t at position i
HasAt(s, i, t) ==
    /\ i + Len(t) - 1 <= Len(s)
    /\ \A j \in 1..Len(t) : s[i + j - 1] = t[j]

\* {"<name1>":"<value1>","<name2>":"<value2>"}
JsonObject2(name1, value1, name2, value2) ==
    << 123 >> \o JsonString(name1) \o << 58 >> \o JsonString(value1)
    \o << 44 >> \o JsonString(name2) \o << 58 >> \o JsonString(value2)
    \o << 125 >>

\* reads a string literal of s that follows the text lead at position i
JsonReadAfter(s, i, lead) ==
    IF HasAt(s, i, lead) THEN JsonReadString(s, i + Len(lead))
    ELSE [ok |-> FALSE, val |-> <<>>, next |-> 1]

\* the two values read, if the second was read and s ends after it with
\* the byte close
JsonReadEnd(s, v1, v2, close) ==
    IF v2.ok /\ v2.next = Len(s) /\ s[Len(s)] = close
    THEN [ok |-> TRUE, first |-> v1.val, second |-> v2.val]
    ELSE [ok |-> FALSE, first |-> <<>>, second |-> <<>>]

\* reads the second value, after the first and the text lead
JsonReadSecond(s, v1, lead, close) ==
    JsonReadEnd(s, v1,
                IF v1.ok THEN JsonReadAfter(s, v1.next, lead)
                ELSE [ok |-> FALSE, val |-> <<>>, next |-> 1],
                close)

\* reads {"<name1>":"<first>","<name2>":"<second>"}: [ok, first, second]
JsonReadObject2(s, name1, name2) ==
    JsonReadSecond(s,
        JsonReadAfter(s, 1, << 123 >> \o JsonString(name1) \o << 58, Quote >>),
        << 44 >> \o JsonString(name2) \o << 58, Quote >>,
        125)

\* an internally tagged enum variant: {"<tagName>":"<tag>","<field>":"<value>"}
JsonTagged(tagName, tag, field, value) ==
    JsonObject2(tagName, tag, field, value)

\* reads a variant whose tag is one of tags and whose field is named
\* field: [ok, tag, value]
JsonTaggedOf(obj, tags) ==
    IF obj.ok /\ obj.first \in tags
    THEN [ok |-> TRUE, tag |-> obj.first, value |-> obj.second]
    ELSE [ok |-> FALSE, tag |-> <<>>, value |-> <<>>]

JsonReadTagged(s, tagName, tags, field) ==
    JsonTaggedOf(JsonReadObject2(s, tagName, field), tags)

\* a pair of strings: ["<first>","<second>"]
JsonTuple2(first, second) ==
    << 91 >> \o JsonString(first) \o << 44 >> \o JsonString(second) \o << 93 >>

\* reads ["<first>","<second>"]: [ok, first, second]
JsonReadTuple2(s) ==
    JsonReadSecond(s, JsonReadAfter(s, 1, << 91, Quote >>), << 44, Quote >>, 93)

(***************************************************************************)
(* lib.rs: RtcSignalData, #[serde(rename_all = "snake_case",               *)
(* tag = "signal_type")], Offer { sdp_data } | Answer { sdp_data }         *)
(***************************************************************************)
\* "signal_type", "sdp_data", "offer", "answer"
SignalTypeName == << 115, 105, 103, 110, 97, 108, 95, 116, 121, 112, 101 >>
SdpDataName == << 115, 100, 112, 95, 100, 97, 116, 97 >>
OfferTag == << 111, 102, 102, 101, 114 >>
AnswerTag == << 97, 110, 115, 119, 101, 114 >>

\* serde_json::to_string(&RtcSignalData::Offer { sdp_data }) and ::Answer
RtcSignalDataToString(signal_type, sdp_data) ==
    JsonTagged(SignalTypeName, signal_type, SdpDataName, sdp_data)

\* serde_json::from_str::<RtcSignalData>
RtcSignalDataFromStr(s) ==
    JsonReadTagged(s, SignalTypeName, {OfferTag, AnswerTag}, SdpDataName)

(***************************************************************************)
(* rtc.rs: SessionDescription { sdp_type, sdp }                            *)
(***************************************************************************)
\* "sdp_type", "sdp"
SdpTypeName == << 115, 100, 112, 95, 116, 121, 112, 101 >>
SdpName == << 115, 100, 112 >>

\* serde_json::to_string(&SessionDescription { sdp_type, sdp })
SessionDescriptionToString(sdp_type, sdp) ==
    JsonObject2(SdpTypeName, sdp_type, SdpName, sdp)

\* serde_json::from_str::<SessionDescription>: [ok, sdp_type, sdp]
SessionDescriptionOf(obj) ==
    [ok |-> obj.ok, sdp_type |-> obj.first, sdp |-> obj.second]

SessionDescriptionFromStr(s) ==
    SessionDescriptionOf(JsonReadObject2(s, SdpTypeName, SdpName))

(***************************************************************************)
(* common.rs: RtcMessage, #[serde(rename_all = "camelCase", tag = "type")], *)
(* PublicKey { public_key } | EncryptedData { encrypted_data }: the        *)
(* variants are renamed, the fields are not.                               *)
(***************************************************************************)
\* "type", "publicKey", "public_key", "encryptedData", "encrypted_data"
TypeName == << 116, 121, 112, 101 >>
PublicKeyTag == << 112, 117, 98, 108, 105, 99, 75, 101, 121 >>
PublicKeyField == << 112, 117, 98, 108, 105, 99, 95, 107, 101, 121 >>
EncryptedDataTag ==
    << 101, 110, 99, 114, 121, 112, 116, 101, 100, 68, 97, 116, 97 >>
EncryptedDataField ==
    << 101, 110, 99, 114, 121, 112, 116, 101, 100, 95, 100, 97, 116, 97 >>

\* the two variants, as [type, data]
PublicKey(public_key) == [type |-> "publicKey", data |-> public_key]
EncryptedData(encrypted_data) ==
    [type |-> "encryptedData", data |-> encrypted_data]

\* serde_json::to_string(&RtcMessage)
RtcMessageToString(message) ==
    IF message.type = "publicKey"
    THEN JsonTagged(TypeName, PublicKeyTag, PublicKeyField, message.data)
    ELSE JsonTagged(TypeName, EncryptedDataTag, EncryptedDataField, message.data)

\* serde_json::from_str::<RtcMessage>: [ok, message]
RtcMessageOf(pk, ed) ==
    IF pk.ok THEN [ok |-> TRUE, message |-> PublicKey(pk.value)]
    ELSE IF ed.ok THEN [ok |-> TRUE, message |-> EncryptedData(ed.value)]
    ELSE [ok |-> FALSE, message |-> PublicKey(<<>>)]

RtcMessageFromStr(s) ==
    RtcMessageOf(
        JsonReadTagged(s, TypeName, {PublicKeyTag}, PublicKeyField),
        JsonReadTagged(s, TypeName, {EncryptedDataTag}, EncryptedDataField))

(***************************************************************************)
(* lib.rs: the scanned-input classifier                                    *)
(***************************************************************************)
\* the length of the logged preview, and the exclusive bounds of the
\* length of an encrypted message
PreviewLen == 50
MinEncryptedLen == 50
MaxEncryptedLen == 2000

Min(a, b) == IF a < b THEN a ELSE b

is_valid_age_public_key(data) == ParseRecipient(data).ok

is_private_key_data(data) == ParseIdentity(data).ok

is_base64(s) == Base64Decode(s).ok

\* "process_rtc_signal", "add_contact", "decrypt_message", "show_dialog":
\* the event types, and the prefix "Read data: "
ReadDataPrefix == << 82, 101, 97, 100, 32, 100, 97, 116, 97, 58, 32 >>

Route(event_type, event_data) ==
    [event_type |-> event_type, event_data |-> event_data]

\* the slice &data[..n] panics unless n is a character boundary
Panic == Route("panic", <<>>)

\* process_qr_data with the upper bound of the length included
process_qr_data_inclusive(data) ==
    IF ~is_char_boundary(data, Min(Len(data), PreviewLen)) THEN Panic
    ELSE IF RtcSignalDataFromStr(data).ok THEN Route("process_rtc_signal", data)
    ELSE IF is_valid_age_public_key(data) THEN Route("add_contact", data)
    ELSE IF is_private_key_data(data) THEN Route("add_contact", data)
    ELSE IF is_base64(data) /\ Len(data) > MinEncryptedLen
                            /\ Len(data) <= MaxEncryptedLen
         THEN Route("decrypt_message", data)
    ELSE Route("show_dialog", ReadDataPrefix \o data)

\* process_qr_data: the custom event it dispatches
process_qr_data(data) ==
    IF ~is_char_boundary(data, Min(Len(data), PreviewLen)) THEN Panic
    ELSE IF RtcSignalDataFromStr(data).ok THEN Route("process_rtc_signal", data)
    ELSE IF is_valid_age_public_key(data) THEN Route("add_contact", data)
    ELSE IF is_private_key_data(data) THEN Route("add_contact", data)
    ELSE IF is_base64(data) /\ Len(data) > MinEncryptedLen
                            /\ Len(data) < MaxEncryptedLen
         THEN Route("decrypt_message", data)
    ELSE Route("show_dialog", ReadDataPrefix \o data)

\* process_qr_data of the worker: the (event_type, event_data) it returns
worker_process_qr_data(data) ==
    IF ~is_char_boundary(data, Min(Len(data), PreviewLen)) THEN Panic
    ELSE IF is_valid_age_public_key(data) THEN Route("add_contact", data)
    ELSE IF is_base64(data) /\ Len(data) > MinEncryptedLen
                            /\ Len(data) < MaxEncryptedLen
         THEN Route("decrypt_message", data)
    ELSE Route("show_dialog", ReadDataPrefix \o data)

(***************************************************************************)
(* State                                                                   *)
(***************************************************************************)
VARIABLES
    \* one run of the worker's crypto functions
    cr_public_key,      \* the public_key argument of encrypt_message
    cr_public_of,       \* the key pair it is the public key of, 0: malformed
    cr_private_key,     \* the private_key argument of decrypt_message
    cr_private_of,      \* the key pair it is the private key of, 0: malformed
    cr_message,         \* the plaintext
    cr_encrypted,       \* what encrypt_message returned
    cr_data,            \* the encrypted_message argument of decrypt_message
    cr_origin,          \* how cr_data was made
    cr_decrypted,       \* what decrypt_message returned
    cr_pc

cryptoVars ==
    << cr_public_key, cr_public_of, cr_private_key, cr_private_of, cr_message,
       cr_encrypted, cr_data, cr_origin, cr_decrypted, cr_pc >>

VARIABLES
    \* one run of the scanned-input classifier
    qr_data,            \* the scanned or pasted string
    qr_kind,            \* how the string was made
    qr_route,           \* the custom event process_qr_data dispatched
    qr_worker,          \* what the worker's process_qr_data returned
    qr_pc

qrVars == << qr_data, qr_kind, qr_route, qr_worker, qr_pc >>

VARIABLES
    \* two installations of the application and their sessions
    app,                \* AppState of each installation
    conns,              \* the rtc::Connection objects created so far
    pending,            \* per installation: queued Msgs and spawned tasks
    worker_in,          \* per installation: requests posted to the worker
    worker_out,         \* per installation: responses posted by the worker
    hist                \* history of the run, for stating properties

sessVars == << app, conns, pending, worker_in, worker_out, hist >>

vars == << cryptoVars, qrVars, sessVars >>

NoResult == [tag |-> "none", val |-> <<>>]

(***************************************************************************)
(* The inputs of the crypto functions                                      *)
(***************************************************************************)
\* a key string with its last checksum symbol replaced
BadChecksum(s, upper) ==
    LET q == IF upper THEN ToUpper(Bech32Charset[1]) ELSE Bech32Charset[1]
        p == IF upper THEN ToUpper(Bech32Charset[2]) ELSE Bech32Charset[2]
    IN  [s EXCEPT ![Len(s)] = IF s[Len(s)] = q THEN p ELSE q]

\* strings that are no Recipient
MalformedPublicKeys ==
    { <<>>, PrivateKeyOf(1), BadChecksum(PublicKeyOf(1), FALSE),
      Truncated(PublicKeyOf(1)) }

\* strings that are no Identity
MalformedPrivateKeys ==
    { <<>>, PublicKeyOf(1), BadChecksum(PrivateKeyOf(1), TRUE),
      Truncated(PrivateKeyOf(1)) }

\* "hi", "h\u{e9}" (2-byte character), "abc", the empty string, and a
\* private key (the plaintext of ExportPrivateKey)
Plaintexts ==
    { <<>>, << 104 >>, << 104, 105 >>, << 104, 195, 169 >>, << 97, 98, 99 >>,
      PrivateKeyOf(1) }

\* "not-valid-base64-blob"
NotBase64Blob ==
    << 110, 111, 116, 45, 118, 97, 108, 105, 100, 45, 98, 97, 115, 101, 54,
       52, 45, 98, 108, 111, 98 >>

\* bytes that are no UTF-8
NotUtf8Bytes == << 104, 255 >>

\* an age file whose payload byte was altered in transit
CorruptPayload(ct) ==
    LET bytes == Base64Decode(ct).bytes
        i == Len(bytes)
    IN  Base64Encode([bytes EXCEPT ![i] = (bytes[i] + 1) % 256])

\* the ciphertext strings a Decrypt request may carry besides the output
\* of encrypt_message, by the way they are made:
\*   "undecodable"  not decodable as base64
\*   "garbage"      base64 of bytes that are no age file
\*   "binary"       an age file for public key k whose payload is no UTF-8
ForeignData(k, nonce) ==
    { [origin |-> "undecodable", data |-> NotBase64Blob],
      [origin |-> "undecodable", data |-> Truncated(Base64Encode(<< 1, 2 >>))],
      [origin |-> "garbage", data |-> Base64Encode(<< 1, 2, 3 >>)],
      [origin |-> "garbage", data |-> <<>>],
      [origin |-> "garbage",
       data |-> Base64Encode(Truncated(AgeEncrypt(ToPublic(SecretOf(k)), nonce, <<>>)))],
      [origin |-> "binary",
       data |-> Base64Encode(AgeEncrypt(ToPublic(SecretOf(k)), nonce, NotUtf8Bytes))] }

(***************************************************************************)
(* Specification of the crypto functions: a request is built from the      *)
(* inputs, encrypt_message runs with a nonce of its choice, and            *)
(* decrypt_message runs on its output or on a string made elsewhere.       *)
(***************************************************************************)
CryptoIdle ==
    /\ cr_public_key = <<>>
    /\ cr_public_of = 0
    /\ cr_private_key = <<>>
    /\ cr_private_of = 0
    /\ cr_message = <<>>
    /\ cr_encrypted = NoResult
    /\ cr_data = <<>>
    /\ cr_origin = "none"
    /\ cr_decrypted = NoResult
    /\ cr_pc = "idle"

QrIdle ==
    /\ qr_data = <<>>
    /\ qr_kind = "none"
    /\ qr_route = [event_type |-> "none", event_data |-> <<>>]
    /\ qr_worker = [event_type |-> "none", event_data |-> <<>>]
    /\ qr_pc = "idle"

SessIdle ==
    /\ app = <<>>
    /\ conns = <<>>
    /\ pending = <<>>
    /\ worker_in = <<>>
    /\ worker_out = <<>>
    /\ hist = <<>>

CryptoStart ==
    /\ \E k \in 0..NumKeys :
          /\ cr_public_of = k
          /\ IF k = 0 THEN cr_public_key \in MalformedPublicKeys
                      ELSE cr_public_key = PublicKeyOf(k)
    /\ \E k \in 0..NumKeys :
          /\ cr_private_of = k
          /\ IF k = 0 THEN cr_private_key \in MalformedPrivateKeys
                      ELSE cr_private_key = PrivateKeyOf(k)
    /\ cr_message \in Plaintexts
    /\ cr_encrypted = NoResult
    /\ cr_data = <<>>
    /\ cr_origin = "none"
    /\ cr_decrypted = NoResult
    /\ cr_pc = "start"

\* MainMessage::Encrypt: encrypt_message(&public_key, &data)
CryptoEncrypt ==
    /\ cr_pc = "start"
    /\ \E nonce \in 0..MaxNonce :
          cr_encrypted' = encrypt_message(cr_public_key, cr_message, nonce)
    /\ cr_data' = cr_encrypted'.val
    /\ cr_origin' = IF cr_encrypted'.tag = "Ok" THEN "encrypted" ELSE "none"
    /\ cr_pc' = IF cr_encrypted'.tag = "Ok" THEN "encrypted" ELSE "done"
    /\ UNCHANGED << cr_public_key, cr_public_of, cr_private_key, cr_private_of,
                    cr_message, cr_decrypted >>
    /\ UNCHANGED << qrVars, sessVars >>

\* the ciphertext is altered on its way to the Decrypt request
CryptoCorrupt ==
    /\ cr_pc = "encrypted"
    /\ cr_origin = "encrypted"
    /\ cr_data' = CorruptPayload(cr_data)
    /\ cr_origin' = "corrupt"
    /\ UNCHANGED << cr_public_key, cr_public_of, cr_private_key, cr_private_of,
                    cr_message, cr_encrypted, cr_decrypted, cr_pc >>
    /\ UNCHANGED << qrVars, sessVars >>

\* a Decrypt request carries a string that encrypt_message did not make
CryptoForeign ==
    /\ cr_pc = "start"
    /\ \E k \in Keys, nonce \in 0..MaxNonce :
          \E f \in ForeignData(k, nonce) :
              /\ f.origin = "binary" => k = cr_public_of
              /\ cr_data' = f.data
              /\ cr_origin' = f.origin
    /\ cr_pc' = "encrypted"
    /\ UNCHANGED << cr_public_key, cr_public_of, cr_private_key, cr_private_of,
                    cr_message, cr_encrypted, cr_decrypted >>
    /\ UNCHANGED << qrVars, sessVars >>

\* MainMessage::Decrypt: decrypt_message(&private_key, &data)
CryptoDecrypt ==
    /\ cr_pc = "encrypted"
    /\ cr_decrypted' = decrypt_message(cr_private_key, cr_data)
    /\ cr_pc' = "done"
    /\ UNCHANGED << cr_public_key, cr_public_of, cr_private_key, cr_private_of,
                    cr_message, cr_encrypted, cr_data, cr_origin >>
    /\ UNCHANGED << qrVars, sessVars >>

InitCrypto == CryptoStart /\ QrIdle /\ SessIdle

NextCrypto ==
    \/ CryptoEncrypt
    \/ CryptoCorrupt
    \/ CryptoForeign
    \/ CryptoDecrypt

SpecCrypto == InitCrypto /\ [][NextCrypto]_vars

(***************************************************************************)
(* Properties of the crypto functions (SpecCrypto)                         *)
(***************************************************************************)
\* decrypt_message has run on the request
Decrypted == cr_pc = "done" /\ cr_decrypted # NoResult

\* C7 - Round-trip: for a valid key pair (pub, priv) and every plaintext
\* m, decrypt_message(priv, encrypt_message(pub, m)) is Ok(Some(m)),
\* whatever nonce the encryption drew.
RoundTrip ==
    (Decrypted /\ cr_origin = "encrypted"
        /\ cr_public_of # 0 /\ cr_private_of = cr_public_of)
    => cr_decrypted = [tag |-> "OkSome", val |-> cr_message]

RoundTripWitness ==
    /\ Decrypted
    /\ cr_origin = "encrypted"
    /\ cr_public_of = NumKeys
    /\ cr_private_of = NumKeys
    /\ cr_message = << 104, 195, 169 >>
    /\ cr_decrypted = [tag |-> "OkSome", val |-> << 104, 195, 169 >>]

\* C8 - Wrong key: for distinct valid key pairs A and B and every
\* plaintext m, decrypt_message(B.priv, encrypt_message(A.pub, m)) is
\* Ok(None): neither the plaintext nor an error.
WrongKey ==
    (Decrypted /\ cr_origin = "encrypted"
        /\ cr_public_of # 0 /\ cr_private_of # 0
        /\ cr_private_of # cr_public_of)
    => cr_decrypted = [tag |-> "OkNone", val |-> <<>>]

WrongKeyWitness ==
    /\ Decrypted
    /\ cr_origin = "encrypted"
    /\ cr_public_of = 1
    /\ cr_private_of = NumKeys
    /\ cr_message = << 104, 105 >>
    /\ cr_decrypted.tag = "OkNone"

\* C9 as claimed - decrypt_message returns Err only if the private key
\* fails to parse: with a parseable private key every ciphertext string
\* yields Ok(Some(plaintext)) or Ok(None).
ErrOnlyForBadKey ==
    (Decrypted /\ cr_private_of # 0)
    => cr_decrypted.tag \in {"OkSome", "OkNone"}

\* C9 as amended - decrypt_message returns Err exactly when the private
\* key fails to parse, or the ciphertext string is not decodable base64,
\* or the payload this key opens is not UTF-8; a decodable ciphertext
\* that the (parseable) key cannot open - no age file, made for another
\* key, or altered - yields Ok(None).
ErrOnlyForBadKeyOrInput ==
    Decrypted =>
        /\ IsErr(cr_decrypted) <=>
              \/ cr_private_of = 0
              \/ cr_origin = "undecodable"
              \/ cr_origin = "binary" /\ cr_private_of = cr_public_of
        /\ (cr_private_of # 0 /\ cr_origin \in {"garbage", "corrupt"})
              => cr_decrypted.tag = "OkNone"

ErrOnlyForBadKeyOrInputWitness ==
    /\ Decrypted
    /\ cr_private_of # 0
    /\ cr_private_of = cr_public_of
    /\ cr_origin = "binary"
    /\ cr_decrypted.tag = "ErrUtf8"

\* C10 - For a valid private key and a ciphertext string that is not
\* decodable base64, decrypt_message returns an error, which is distinct
\* from the ambiguous Ok(None).
UndecodableIsError ==
    (Decrypted /\ cr_private_of # 0 /\ cr_origin = "undecodable")
    => (cr_decrypted.tag = "ErrBase64" /\ cr_decrypted.tag # "OkNone")

UndecodableIsErrorWitness ==
    /\ Decrypted
    /\ cr_private_of # 0
    /\ cr_origin = "undecodable"
    /\ cr_data = NotBase64Blob
    /\ cr_decrypted.tag = "ErrBase64"

\* encrypt_message has run on the request
Encrypted == cr_encrypted # NoResult

\* C11 - encrypt_message succeeds if and only if public_key parses as a
\* public key: for a Recipient string it returns Ok with a non-empty
\* base64 text, for any other string it returns Err, whatever the
\* plaintext is.
EncryptIffKeyParses ==
    Encrypted =>
        /\ cr_encrypted.tag = "Ok" <=> cr_public_of # 0
        /\ cr_encrypted.tag # "Ok" => cr_encrypted.tag = "Err"
        /\ cr_encrypted.tag = "Ok"
              => /\ cr_encrypted.val # <<>>
                 /\ Base64Decode(cr_encrypted.val).ok

\* the empty plaintext was encrypted for a valid key
EncryptIffKeyParsesWitness ==
    /\ Encrypted
    /\ cr_public_of = NumKeys
    /\ cr_message = <<>>
    /\ cr_encrypted.tag = "Ok"
    /\ Base64Decode(cr_encrypted.val).ok

(***************************************************************************)
(* Specification of the classifier: a string is scanned or pasted and      *)
(* process_qr_data runs on it.  The inputs are labelled by the way they    *)
(* are made:                                                               *)
(*   "signal"       serde_json::to_string of an RtcSignalData              *)
(*   "public_key"   Recipient::to_string of a key                          *)
(*   "private_key"  Identity::to_string of a key                           *)
(*   "base64"       BASE64.encode of some bytes                            *)
(*   "alphabet"     symbols of the base64 alphabet that BASE64.encode      *)
(*                  does not produce                                       *)
(*   "text"         anything else                                          *)
(***************************************************************************)
QrInput(kind, data) == [kind |-> kind, data |-> data]

\* "h\u{e9}": a character of two bytes
TwoByteChar == << 195, 169 >>

\* an sdp_data that puts the second byte of a character at byte
\* PreviewLen of the serialised signal
StraddlingSdp(signal_type) ==
    LET lead == Len(RtcSignalDataToString(signal_type, <<>>)) - 2
    IN  Rep(120, PreviewLen - 1 - lead) \o TwoByteChar \o << 120 >>

SignalInputs ==
    UNION { { QrInput("signal", RtcSignalDataToString(t, << 120 >>)),
              QrInput("signal", RtcSignalDataToString(t,
                  SessionDescriptionToString(t, << 118, 61, 48, 13, 10 >>))),
              QrInput("signal", RtcSignalDataToString(t, Rep(65, MinEncryptedLen + 10))),
              QrInput("signal", RtcSignalDataToString(t, TwoByteChar)),
              QrInput("signal", RtcSignalDataToString(t, StraddlingSdp(t))) }
            : t \in {OfferTag, AnswerTag} }

KeyInputs ==
    UNION { { QrInput("public_key", PublicKeyOf(k)),
              QrInput("private_key", PrivateKeyOf(k)) } : k \in Keys }

\* numbers of bytes whose encodings have 0, 4, 48, 52, 56, 1996, 2000 and
\* 2004 symbols
EncodedSizes ==
    { 0, 3,
      3 * (MinEncryptedLen \div 4), 3 * (MinEncryptedLen \div 4) + 1,
      3 * (MinEncryptedLen \div 4) + 2, 3 * (MinEncryptedLen \div 4) + 3,
      3 * (MinEncryptedLen \div 4) + 6,
      3 * (MaxEncryptedLen \div 4) - 3, 3 * (MaxEncryptedLen \div 4) - 2,
      3 * (MaxEncryptedLen \div 4), 3 * (MaxEncryptedLen \div 4) + 1 }

Base64Inputs ==
    { QrInput("base64", Base64Encode(Rep(b, n)))
        : b \in {0, 104, 255}, n \in EncodedSizes }
    \cup { QrInput("base64", encrypt_message(PublicKeyOf(1), m, 0).val)
            : m \in Plaintexts }

\* lengths around the two bounds that no encoding has
UnencodedLengths ==
    { MinEncryptedLen - 1, MinEncryptedLen, MinEncryptedLen + 1,
      MaxEncryptedLen - 3, MaxEncryptedLen - 2, MaxEncryptedLen - 1 }

\* 'A', 'z', '9', '/'; and 49 'A' then "B==", whose last symbol has
\* trailing bits
AlphabetInputs ==
    { QrInput("alphabet", Rep(c, n))
        : c \in {65, 122, 57, 47}, n \in UnencodedLengths }
    \cup { QrInput("alphabet",
                   Rep(65, MinEncryptedLen - 1) \o << 66, PadChar, PadChar >>) }

\* "hello world", and texts with a two-byte character before, on and after
\* byte PreviewLen
TextInputs ==
    { QrInput("text", << 104, 101, 108, 108, 111, 32, 119, 111, 114, 108, 100 >>),
      QrInput("text", NotBase64Blob),
      QrInput("text", Rep(45, MinEncryptedLen + 10)),
      QrInput("text", TwoByteChar),
      QrInput("text", Rep(97, PreviewLen - 2) \o TwoByteChar),
      QrInput("text", Rep(97, PreviewLen - 1) \o TwoByteChar \o << 97 >>),
      QrInput("text", Rep(97, PreviewLen) \o TwoByteChar) }

QrInputs ==
    SignalInputs \cup KeyInputs \cup Base64Inputs \cup AlphabetInputs
        \cup TextInputs

QrStart ==
    /\ \E in \in QrInputs :
          /\ qr_data = in.data
          /\ qr_kind = in.kind
    /\ qr_route = [event_type |-> "none", event_data |-> <<>>]
    /\ qr_worker = [event_type |-> "none", event_data |-> <<>>]
    /\ qr_pc = "scanned"

\* the QR reader (or the paste field) hands the string to process_qr_data
ProcessQrData ==
    /\ qr_pc = "scanned"
    /\ qr_route' = process_qr_data(qr_data)
    /\ qr_pc' = "done"
    /\ UNCHANGED << qr_data, qr_kind, qr_worker >>
    /\ UNCHANGED << cryptoVars, sessVars >>

\* the same string is sent to the worker in a ProcessQrData request
WorkerProcessQrData ==
    /\ qr_pc \in { "scanned", "done" }
    /\ qr_worker.event_type = "none"
    /\ qr_worker' = worker_process_qr_data(qr_data)
    /\ UNCHANGED << qr_data, qr_kind, qr_route, qr_pc >>
    /\ UNCHANGED << cryptoVars, sessVars >>

InitQr == CryptoIdle /\ QrStart /\ SessIdle

NextQr == ProcessQrData \/ WorkerProcessQrData

SpecQr == InitQr /\ [][NextQr]_vars

(***************************************************************************)
(* Properties of the classifier (SpecQr)                                   *)
(***************************************************************************)
EndsWith(s, t) ==
    /\ Len(s) >= Len(t)
    /\ SubSeq(s, Len(s) - Len(t) + 1, Len(s)) = t

\* the rule the claim's priority order selects for the scanned string
ClaimedEventType ==
    IF qr_kind = "signal" THEN "process_rtc_signal"
    ELSE IF qr_kind \in {"public_key", "private_key"} THEN "add_contact"
    ELSE IF /\ qr_kind = "base64"
            /\ Len(qr_data) > MinEncryptedLen
            /\ Len(qr_data) < MaxEncryptedLen
         THEN "decrypt_message"
    ELSE "show_dialog"

\* C5 - Input classifier: for every input string process_qr_data
\* dispatches the route of the first matching rule: a signal descriptor
\* to process_rtc_signal, a public key to add_contact, a private key to
\* add_contact, base64 of a length strictly between 50 and 2000 to
\* decrypt_message, anything else to show_dialog with the raw text.
ClassifierOrder ==
    qr_pc = "done" =>
        /\ qr_route.event_type = ClaimedEventType
        /\ EndsWith(qr_route.event_data, qr_data)

\* C23: the classifier never panics: for every scanned or pasted string,
\* of any length and content, with byte 50 inside a character or not,
\* process_qr_data completes and dispatches exactly one route.
ClassifierCompletes ==
    qr_pc = "done" =>
        qr_route.event_type \in { "process_rtc_signal", "add_contact",
                                  "decrypt_message", "show_dialog" }

\* a string with a character over byte 50 has been classified
ClassifierPanics ==
    /\ qr_pc = "done"
    /\ ~is_char_boundary(qr_data, PreviewLen)
    /\ qr_route = Panic

\* C6 as claimed - Classifier boundary: a string of base64 symbols of
\* length exactly 50 or exactly 2000 is not routed to decrypt_message,
\* and one of length 51 or 1999 is.
ClassifierBoundary ==
    (qr_pc = "done" /\ qr_kind \in {"base64", "alphabet"}) =>
        /\ Len(qr_data) \in {MinEncryptedLen, MaxEncryptedLen}
              => qr_route.event_type # "decrypt_message"
        /\ Len(qr_data) \in {MinEncryptedLen + 1, MaxEncryptedLen - 1}
              => qr_route.event_type = "decrypt_message"

\* C6 as amended - is_base64 accepts only what BASE64.decode accepts,
\* padded base64, whose length is a multiple of 4: a string of base64
\* symbols of length 50, 51, 1999 or 2000 is not routed to
\* decrypt_message; an encoding of length 52 up to 1996 is, and these are
\* the only strings of base64 symbols that are.
ClassifierBoundaryDecodable ==
    (qr_pc = "done" /\ qr_kind \in {"base64", "alphabet"}) =>
        /\ Len(qr_data) \in { MinEncryptedLen, MinEncryptedLen + 1,
                              MaxEncryptedLen - 1, MaxEncryptedLen }
              => qr_route.event_type = "show_dialog"
        /\ qr_route.event_type = "decrypt_message"
              <=> /\ qr_kind = "base64"
                  /\ Len(qr_data) >= MinEncryptedLen + 2
                  /\ Len(qr_data) <= MaxEncryptedLen - 4

ClassifierBoundaryDecodableWitness ==
    /\ qr_pc = "done"
    /\ qr_kind = "base64"
    /\ Len(qr_data) = MaxEncryptedLen - 4
    /\ qr_route = Route("decrypt_message", qr_data)

(***************************************************************************)
(* The session.  Two installations, each a yew component (lib.rs) with its *)
(* worker (worker.rs) and the rtc::Connection objects it creates (rtc.rs). *)
(*                                                                         *)
(* Scheduling is the browser's: a task (a user event, an event of a peer   *)
(* connection or data channel, a promise the browser settles, a message    *)
(* from the worker) runs, and then everything it queued - yew messages     *)
(* sent with send_message, futures given to spawn_local - runs before the  *)
(* next task of that installation.  pending[p] is that queue; a task       *)
(* starts only when the queues are empty (Settled).  The events of one     *)
(* connection reach its handlers in the order the browser queued them      *)
(* (conns[c].events).                                                      *)
(***************************************************************************)
Peers == {"alice", "bob"}

\* the key pair each installation generated when it was first started
KeyOf(p) == IF p = "alice" THEN 1 ELSE NumKeys

\* "hello"
Hello == << 104, 101, 108, 108, 111 >>

\* what a user types into the chat input
ChatTexts == { Hello, PrivateKeyOf(1) }

\* "bob", "eve": the names a user gives to contacts; " ": a blank name
NameBob == << 98, 111, 98 >>
NameEve == << 101, 118, 101 >>
BlankName == << 32 >>
ContactNames == { NameBob, NameEve }

\* "memo": what a user types into the message dialog
Memo == << 109, 101, 109, 111 >>
MessageTexts == { Memo }

\* "note": the text of a message somebody encrypted for a QR code
Note == << 110, 111, 116, 101 >>

\* the installation whose user manages contacts, messages and keys
AppUsers == { "alice" }

\* the contacts an earlier run stored
StoredContacts == [n \in { NameBob } |-> PublicKeyOf(NumKeys)]

\* the characters str::trim removes (ASCII)
Whitespace == { 9, 10, 11, 12, 13, 32 }

\* name.trim().is_empty()
trim_is_empty(name) == \A i \in DOMAIN name : name[i] \in Whitespace

\* "contact", "message": the fields of the data of encrypt_message
ContactField == << 99, 111, 110, 116, 97, 99, 116 >>
MessageField == << 109, 101, 115, 115, 97, 103, 101 >>

\* AppState after initialisation (keys loaded, is_loading = false); an
\* Option is <<>> (None) or <<x>> (Some(x)); contacts is the HashMap from
\* names to keys, a function on the names it holds; each dialog's visible
\* flag is set and cleared together with the Option the dialog shows
InitialAppState(p) ==
    [my_keys |-> generate_key_pair_with_progress(KeyOf(p)),
     dialog_message |-> <<>>,
     encrypted_qr_data |-> <<>>,
     private_key_to_import |-> <<>>,
     rtc_dialog_visible |-> FALSE,
     rtc_connection |-> <<>>,
     rtc_connected |-> FALSE,
     rtc_peer_public_key |-> <<>>,
     chat_visible |-> FALSE,
     chat_messages |-> <<>>,
     contacts |-> << >>,
     public_key_to_add |-> <<>>,
     delete_target |-> <<>>,
     is_loading |-> FALSE,
     loading_progress |-> << 100 >>]

\* Option<KeyPair>: None is the pair of no strings (no key is empty)
NoKeys == [public_key |-> <<>>, private_key |-> <<>>]

\* AppState of App::create: nothing is loaded yet
DefaultAppState(p) ==
    [InitialAppState(p) EXCEPT
        !.my_keys = NoKeys, !.is_loading = TRUE, !.loading_progress = << 0 >>]

\* Connection::new, with the RtcPeerConnection behind it:
\*   channel        the data channel handle and its readyState: "none",
\*                  "connecting", "open", "closed"
\*   ondatachannel, onmessage   whether the handler is registered
\*   pos            where start_connection / recv_offer is suspended
\*   sdp            the description its set_remote_description is applying
\*   answer         the description recv_answer is applying, if any
\*   local          the local description: "none", "offer", "answer"
\*   remote         the connection whose description is the remote one, or 0
\*   gathering      a candidate has been found and more may follow
\*   gathered       ICE gathering is complete
\*   ice            the ICE connection state: "new", "connected",
\*                  "completed", "disconnected"
\*   events         the events the browser queued for its handlers
NewConnection(p) ==
    [owner |-> p,
     is_initiator |-> FALSE,
     channel |-> "none",
     ondatachannel |-> FALSE,
     onmessage |-> FALSE,
     pos |-> "new",
     sdp |-> <<>>,
     answer |-> <<>>,
     local |-> "none",
     remote |-> 0,
     gathering |-> FALSE,
     gathered |-> FALSE,
     ice |-> "new",
     events |-> <<>>]

\* "v=0\r\no=- <c>\r\n": the session description the browser writes for
\* connection c
Sdp(c) == << 118, 61, 48, 13, 10, 111, 61, 45, 32, 48 + c, 13, 10 >>

\* the connection a session description was written for, 0 if it is none
SdpConn(sdp) ==
    IF /\ Len(sdp) = Len(Sdp(0))
       /\ sdp[10] >= 48 /\ sdp[10] <= 57
       /\ sdp = Sdp(sdp[10] - 48)
    THEN sdp[10] - 48
    ELSE 0

\* a yew message in the queue, and a future given to spawn_local
Msg(msg, tag, data) ==
    [msg |-> msg, tag |-> tag, data |-> data, key |-> <<>>, conn |-> 0]
Task(fn, conn, key, data) ==
    [msg |-> fn, tag |-> "spawn_local", data |-> data, key |-> key, conn |-> conn]

\* Msg::UpdateLoadingProgress(_, Some(percent))
Progress(percent) == Msg("UpdateLoadingProgress", "", << percent >>)

\* an event queued for a connection's handlers
Event(type, data) == [type |-> type, data |-> data]

\* MainMessage (Encrypt { public_key, data }, Decrypt { private_key, data })
\* and WorkerMessage (Encrypted, Decrypted, Error)
MainMessage(type, key, data) == [type |-> type, key |-> key, data |-> data]
WorkerMessage(type, data) == [type |-> type, data |-> data]

\* the names of the custom events
EventTypes ==
    { "process_rtc_signal", "add_contact", "decrypt_message", "show_dialog",
      "show_encrypted_qr", "encrypted_message_ready", "decrypted_message_ready",
      "encrypt_message", "public_key_generated" }

EventTypeName(event_type) ==
    CASE event_type = "process_rtc_signal" ->
            << 112, 114, 111, 99, 101, 115, 115, 95, 114, 116, 99, 95, 115,
               105, 103, 110, 97, 108 >>
      [] event_type = "add_contact" ->
            << 97, 100, 100, 95, 99, 111, 110, 116, 97, 99, 116 >>
      [] event_type = "decrypt_message" ->
            << 100, 101, 99, 114, 121, 112, 116, 95, 109, 101, 115, 115, 97,
               103, 101 >>
      [] event_type = "show_dialog" ->
            << 115, 104, 111, 119, 95, 100, 105, 97, 108, 111, 103 >>
      [] event_type = "show_encrypted_qr" ->
            << 115, 104, 111, 119, 95, 101, 110, 99, 114, 121, 112, 116, 101,
               100, 95, 113, 114 >>
      [] event_type = "encrypted_message_ready" ->
            << 101, 110, 99, 114, 121, 112, 116, 101, 100, 95, 109, 101, 115,
               115, 97, 103, 101, 95, 114, 101, 97, 100, 121 >>
      [] event_type = "decrypted_message_ready" ->
            << 100, 101, 99, 114, 121, 112, 116, 101, 100, 95, 109, 101, 115,
               115, 97, 103, 101, 95, 114, 101, 97, 100, 121 >>
      [] event_type = "encrypt_message" ->
            << 101, 110, 99, 114, 121, 112, 116, 95, 109, 101, 115, 115, 97,
               103, 101 >>
      [] event_type = "public_key_generated" ->
            << 112, 117, 98, 108, 105, 99, 95, 107, 101, 121, 95, 103, 101,
               110, 101, 114, 97, 116, 101, 100 >>
      [] OTHER -> <<>>

EventTypeOf(name) ==
    IF \E t \in EventTypes : EventTypeName(t) = name
    THEN CHOOSE t \in EventTypes : EventTypeName(t) = name
    ELSE "unknown"

\* dispatch_custom_event and the listener of setup_custom_event_listener:
\* the pair is serialised into the event's detail, the listener parses it
\* and sends Msg::HandleCustomEvent; the messages this queues
custom_event_listener(parsed) ==
    IF parsed.ok
    THEN << Msg("HandleCustomEvent", EventTypeOf(parsed.first), parsed.second) >>
    ELSE <<>>

dispatch_custom_event(event_type, data) ==
    custom_event_listener(
        JsonReadTuple2(JsonTuple2(EventTypeName(event_type), data)))

\* Connection::set_data_handler that returns Ok without installing the
\* closure
set_data_handler_unset(conn) == conn

\* Connection::set_data_handler: onmessage is set if there is a channel
set_data_handler(conn) ==
    IF conn.channel # "none" THEN [conn EXCEPT !.onmessage = TRUE] ELSE conn

\* Connection::send_message written as Connection::send_data is: nothing
\* to do without a channel, no look at the channel's state, the error of
\* send_with_str dropped
send_message_lenient(conn, message) ==
    IF conn.channel = "open"
    THEN [result |-> "Ok", error |-> "",
          wire |-> << RtcMessageToString(message) >>]
    ELSE [result |-> "Ok", error |-> "", wire |-> <<>>]

\* Connection::send_message: the Result, and what was handed to the
\* channel with send_with_str (wire, <<>> if nothing)
send_message(conn, message) ==
    IF conn.channel = "none"
    THEN [result |-> "Err", error |-> "No data channel available",
          wire |-> <<>>]
    ELSE IF conn.channel # "open"
    THEN [result |-> "Err", error |-> "Data channel is not ready",
          wire |-> <<>>]
    ELSE [result |-> "Ok", error |-> "",
          wire |-> << RtcMessageToString(message) >>]

\* the two connections have each other's description as the remote one
Wired(c, d) == conns[c].remote = d /\ conns[d].remote = c

\* the data channel carries what was handed to it to the other end, which
\* queues a message event unless its channel is closed
Transmit(cs, c, wire) ==
    LET d == cs[c].remote
    IN  IF wire = <<>> THEN cs
        ELSE IF d = 0 THEN cs
        ELSE IF cs[d].remote # c \/ cs[d].channel = "closed" THEN cs
        ELSE [cs EXCEPT ![d].events = Append(@, Event("message", wire[1]))]

\* the closure with a RtcMessage that falls back to PublicKey of what
\* was read: a string that is no envelope sets an empty peer key
data_handler_of_default(parsed) ==
    IF parsed.message.type = "publicKey"
    THEN << Msg("SetPeerPublicKey", "", parsed.message.data) >>
    ELSE << Msg("DecryptReceivedMessage", "", parsed.message.data) >>

\* the closure given to set_data_handler (SendPublicKeyViaRtc): the yew
\* messages it sends for one inbound string
data_handler_of(parsed) ==
    IF ~parsed.ok THEN <<>>
    ELSE IF parsed.message.type = "publicKey"
    THEN << Msg("SetPeerPublicKey", "", parsed.message.data) >>
    ELSE << Msg("DecryptReceivedMessage", "", parsed.message.data) >>

data_handler(data) == data_handler_of(RtcMessageFromStr(data))

\* the record of one call of send_message, kept for the properties:
\* the channel's state at the call, the result, whether a string was
\* handed to the channel, the string if it is a PublicKey envelope, and
\* whether the caller sent Msg::ShowDialog
SendRecord(c, sort, state, sent, queued) ==
    [conn |-> c, type |-> sort, state |-> state, result |-> sent.result,
     handed |-> sent.wire # <<>>,
     envelope |-> IF sort = "publicKey" THEN sent.wire ELSE <<>>,
     surfaced |-> \E i \in DOMAIN queued : queued[i].msg = "ShowDialog"]

otherVars == << cryptoVars, qrVars >>

\* a task starts when the work the task before it queued is done: the
\* browser runs an installation's queue before its next task, and the
\* queue of the other installation and the worker's turn take no time that
\* a task could tell from the delay of what they send
Settled == \A p \in Peers : pending[p] = <<>> /\ worker_in[p] = <<>>

\* the next thing in p's queue is msg
Handles(p, msg) == pending[p] # <<>> /\ Head(pending[p]).msg = msg

\* the handler at the head of p's queue returns, having queued more
Then(p, more) == pending' = [pending EXCEPT ![p] = Tail(@) \o more]

\* the length of the preview of the peer key in the chat view and in the
\* RTC dialog
PeerKeyPreviewLen == 20

\* &peer_key[..20] panics when the key is shorter or byte 20 is inside a
\* character
PreviewPanics(peer_key) ==
    \/ Len(peer_key) < PeerKeyPreviewLen
    \/ ~is_char_boundary(peer_key, PeerKeyPreviewLen)

\* App::view panics on this state: render_chat_view and render_rtc_dialog
\* show the preview of the peer key
view_panics(state) ==
    /\ state.rtc_peer_public_key # <<>>
    /\ PreviewPanics(state.rtc_peer_public_key[1])
    /\ \/ state.chat_visible
       \/ state.rtc_dialog_visible /\ state.rtc_connected

\* the component is rendered when its queue is empty; once App::view has
\* panicked nothing runs in the installation any more
Crashed(p) == pending[p] = <<>> /\ view_panics(app[p])

\* a task of p ends, having queued more
Queues(p, more) ==
    /\ ~Crashed(p)
    /\ pending' = [pending EXCEPT ![p] = @ \o more]

\* the history of a worker that has started
Started == [ready |-> 1, early |-> FALSE, silent |-> FALSE]

\* the start of a run that may create conn_limit connections and in which
\* the users do user_limit things; hist keeps
\* what the properties need of the past, and the counts of the run:
\*   rejected   the connections whose recv_answer returned Err
\*   last_key   the key of the PublicKey envelope each installation
\*              received last since it cleared rtc_peer_public_key
\*   malformed  the requests the worker was sent that are no MainMessage
\*   confirmed  the private keys whose import each user confirmed, since
\*              the user last cancelled an import
\*   worker     of each worker: how many times it posted Ready, whether
\*              it posted another response before, and whether a request
\*              was left without a response
\*   refused    the signals Msg::ProcessRtcSignal did not act on: who was
\*              given it, whether it was a signal at all, and how many
\*              connections the run had made
SessStartWith(conn_limit, user_limit) ==
    /\ app = [p \in Peers |-> InitialAppState(p)]
    /\ conns = <<>>
    /\ pending = [p \in Peers |-> <<>>]
    /\ worker_in = [p \in Peers |-> <<>>]
    /\ worker_out = [p \in Peers |-> <<>>]
    /\ hist = [sends |-> {}, delivered |-> {}, chats |-> {}, alerts |-> {},
               scanned |-> {}, rejected |-> {},
               last_key |-> [p \in Peers |-> <<>>],
               conn_limit |-> conn_limit, user_limit |-> user_limit,
               user_actions |-> 0, key_sends |-> 0, network_changes |-> 0,
               pastes |-> 0, injected |-> 0, malformed |-> 0,
               confirmed |-> [p \in Peers |-> {}],
               worker |-> [p \in Peers |-> Started],
               refused |-> {}]

SessStart == SessStartWith(MaxConns, MaxUserActions)

(***************************************************************************)
(* The user                                                                *)
(***************************************************************************)
\* one more thing a user does, while the run allows it
UserActs == hist' = [hist EXCEPT !.user_actions = @ + 1]

\* the run allows one more
UserMayAct == Settled /\ hist.user_actions < hist.user_limit

\* the "Chat" button of the main view, then "Create Offer & Generate QR
\* Code" in the RTC dialog it opens
ClickCreateOffer(p) ==
    /\ UserMayAct
    /\ ~app[p].chat_visible
    /\ Len(conns) < hist.conn_limit
    /\ Queues(p, << Msg("ShowRtcDialog", "", <<>>),
                    Msg("StartRtcConnection", "", <<>>) >>)
    /\ UserActs
    /\ UNCHANGED << app, conns, worker_in, worker_out, otherVars >>

\* the "Chat" button of the main view, then "Send My Public Key" in the
\* RTC dialog, which shows it when rtc_connected
ClickSendMyPublicKey(p) ==
    /\ UserMayAct
    /\ hist.key_sends < MaxKeySends
    /\ ~app[p].chat_visible
    /\ app[p].rtc_connected
    /\ Queues(p, << Msg("ShowRtcDialog", "", <<>>),
                    Msg("SendPublicKeyViaRtc", "", <<>>) >>)
    /\ hist' = [hist EXCEPT !.user_actions = @ + 1, !.key_sends = @ + 1]
    /\ UNCHANGED << app, conns, worker_in, worker_out, otherVars >>

\* the back button of the chat view
ClickBack(p) ==
    /\ UserMayAct
    /\ app[p].chat_visible
    /\ Queues(p, << Msg("HideChatView", "", <<>>) >>)
    /\ UserActs
    /\ UNCHANGED << app, conns, worker_in, worker_out, otherVars >>

\* the send button of the chat view, with a non-blank input
ClickSend(p) ==
    /\ UserMayAct
    /\ app[p].chat_visible
    /\ Cardinality(hist.chats) < MaxChat
    /\ \E text \in ChatTexts :
          Queues(p, << Msg("SendChatMessage", "", text) >>)
    /\ UserActs
    /\ UNCHANGED << app, conns, worker_in, worker_out, otherVars >>

\* p's connection is not applying an answer
NoAnswerInFlight(p) ==
    IF app[p].rtc_connection = <<>> THEN TRUE
    ELSE conns[app[p].rtc_connection[1]].answer = <<>>

\* the signal is an offer
IsOffer(signal) == signal.ok /\ signal.tag = OfferTag

\* the messages queued by the event process_qr_data dispatches
Dispatched(route) ==
    IF route = Panic THEN <<>>
    ELSE dispatch_custom_event(route.event_type, route.event_data)

\* p reads the QR code q is showing, once: process_qr_data runs on its
\* text (a panic ends the call with nothing dispatched)
ScanQr(p, q) ==
    /\ p # q
    /\ UserMayAct
    /\ ~app[p].chat_visible
    /\ app[q].encrypted_qr_data # <<>>
    /\ NoAnswerInFlight(p)
    /\ [peer |-> p, data |-> app[q].encrypted_qr_data[1]] \notin hist.scanned
    /\ IsOffer(RtcSignalDataFromStr(app[q].encrypted_qr_data[1]))
          => Len(conns) < hist.conn_limit
    /\ Queues(p, Dispatched(process_qr_data(app[q].encrypted_qr_data[1])))
    /\ hist' = [hist EXCEPT
                   !.user_actions = @ + 1,
                   !.scanned = @ \cup {[peer |-> p,
                                        data |-> app[q].encrypted_qr_data[1]]}]
    /\ UNCHANGED << app, conns, worker_in, worker_out, otherVars >>

\* "x"
NoJson == << 120 >>

\* Answer signals that no responder of the run made: one whose sdp_data is
\* no SessionDescription, one whose description has an empty sdp
PastedSignals ==
    { RtcSignalDataToString(AnswerTag, NoJson),
      RtcSignalDataToString(AnswerTag,
                            SessionDescriptionToString(AnswerTag, <<>>)) }

\* p reads or pastes such a signal
PasteSignal(p) ==
    /\ UserMayAct
    /\ hist.pastes < MaxPastes
    /\ ~app[p].chat_visible
    /\ NoAnswerInFlight(p)
    /\ \E data \in PastedSignals :
          Queues(p, Dispatched(process_qr_data(data)))
    /\ hist' = [hist EXCEPT !.user_actions = @ + 1, !.pastes = @ + 1]
    /\ UNCHANGED << app, conns, worker_in, worker_out, otherVars >>

\* details of qr_app_event that are no RtcSignalData: "x", a PublicKey
\* envelope, and an object whose signal_type is neither offer nor answer
DispatchedSignals ==
    { NoJson, RtcMessageToString(PublicKey(Hello)),
      JsonTagged(SignalTypeName, PublicKeyTag, SdpDataName, NoJson) }

\* the page dispatches a qr_app_event of type process_rtc_signal on the
\* document (the listener takes every event of that name)
DispatchRtcSignal(p) ==
    /\ Settled
    /\ hist.injected < MaxDispatched
    /\ \E data \in DispatchedSignals :
          Queues(p, dispatch_custom_event("process_rtc_signal", data))
    /\ hist' = [hist EXCEPT !.injected = @ + 1]
    /\ UNCHANGED << app, conns, worker_in, worker_out, otherVars >>

\* p's user does what queues the messages more
AppUserDoes(p, more) ==
    /\ UserMayAct
    /\ Queues(p, more)
    /\ UserActs
    /\ UNCHANGED << app, conns, worker_in, worker_out, otherVars >>

\* the public keys shown to the QR reader
ScannedKeys == { PublicKeyOf(k) : k \in Keys }

\* the QR reader of the main view reads a public key
ScanKey(p) ==
    /\ ~app[p].chat_visible
    /\ \E key \in ScannedKeys :
          AppUserDoes(p, Dispatched(process_qr_data(key)))

\* the Add button of the add contact dialog, with the name typed
ClickAddContact(p) ==
    /\ app[p].public_key_to_add # <<>>
    /\ \E name \in ContactNames \cup { BlankName } :
          AppUserDoes(p, IF ~trim_is_empty(name)
                         THEN << Msg("ConfirmAddContact", "", name) >>
                         ELSE << Msg("HideAddContactDialog", "", <<>>) >>)

\* the delete button of a contact in the main view
ClickDeleteContact(p) ==
    /\ ~app[p].chat_visible
    /\ \E name \in DOMAIN app[p].contacts :
          AppUserDoes(p, << Msg("ShowDeleteConfirm", "", name) >>)

\* the Delete button of the delete confirmation
ClickConfirmDelete(p) ==
    /\ app[p].delete_target # <<>>
    /\ AppUserDoes(p, << Msg("ConfirmDeleteContact", "",
                             app[p].delete_target[1]) >>)

\* format!(r#"{{"contact":"{}","message":"{}"}}"#, ...) with the
\* replacements of the message dialog: a quote by \", and in the message
\* a line feed by \n
RECURSIVE Replaced(_, _)
Replaced(s, line_feeds) ==
    IF s = <<>> THEN <<>>
    ELSE (IF Head(s) = Quote THEN << Backslash, Quote >>
          ELSE IF line_feeds /\ Head(s) = 10 THEN << Backslash, 110 >>
          ELSE << Head(s) >>) \o Replaced(Tail(s), line_feeds)

encrypt_data(selected_contact, message) ==
    << 123 >> \o << Quote >> \o ContactField \o << Quote, 58, Quote >>
    \o Replaced(selected_contact, FALSE) \o << Quote, 44, Quote >>
    \o MessageField \o << Quote, 58, Quote >>
    \o Replaced(message, TRUE) \o << Quote, 125 >>

\* the send button of the message dialog, with a contact selected and a
\* message typed
ClickEncrypt(p) ==
    /\ ~app[p].chat_visible
    /\ \E contact \in DOMAIN app[p].contacts, message \in MessageTexts :
          AppUserDoes(p, dispatch_custom_event("encrypt_message",
                                               encrypt_data(contact, message)))

\* the export button of the export dialog, with a recipient selected
ClickExport(p) ==
    /\ ~app[p].chat_visible
    /\ \E name \in DOMAIN app[p].contacts :
          AppUserDoes(p, << Msg("ExportPrivateKey", "", name) >>)

\* the encrypted texts shown to the QR reader: a message for the reader,
\* a message for somebody else, the exported private key of each key pair
ScannedBlobs ==
    { encrypt_message(PublicKeyOf(1), Note, 0).val,
      encrypt_message(PublicKeyOf(NumKeys), Note, 0).val }
    \cup { encrypt_message(PublicKeyOf(1), PrivateKeyOf(k), 0).val : k \in Keys }

\* the QR reader of the main view reads an encrypted text
ScanBlob(p) ==
    /\ ~app[p].chat_visible
    /\ \E blob \in ScannedBlobs :
          AppUserDoes(p, Dispatched(process_qr_data(blob)))

\* the Import and Cancel buttons of the import confirmation
ClickConfirmImport(p) ==
    /\ app[p].private_key_to_import # <<>>
    /\ AppUserDoes(p, << Msg("ConfirmImportPrivateKey", "", <<>>) >>)

ClickCancelImport(p) ==
    /\ app[p].private_key_to_import # <<>>
    /\ AppUserDoes(p, << Msg("CancelImportPrivateKey", "", <<>>) >>)

\* the page posts to p's worker what is no MainMessage
PostMalformed(p) ==
    /\ UserMayAct
    /\ worker_in' = [worker_in EXCEPT ![p] =
                        Append(@, MainMessage("Malformed", <<>>, <<>>))]
    /\ hist' = [hist EXCEPT !.user_actions = @ + 1, !.malformed = @ + 1]
    /\ UNCHANGED << app, conns, pending, worker_out, otherVars >>

\* the strings of the ProcessQrData requests: a public key, a private
\* key, a signal, an encrypted text, a text, and a text with a two-byte
\* character on byte PreviewLen
WorkerQrInputs ==
    { PublicKeyOf(1), PrivateKeyOf(1),
      RtcSignalDataToString(OfferTag, << 120 >>),
      encrypt_message(PublicKeyOf(1), Note, 0).val,
      Note,
      Rep(97, PreviewLen - 1) \o TwoByteChar \o << 97 >> }

\* a page posts a ProcessQrData request to p's worker (App posts none)
PostProcessQrData(p) ==
    /\ UserMayAct
    /\ \E data \in WorkerQrInputs :
          worker_in' = [worker_in EXCEPT ![p] =
                           Append(@, MainMessage("ProcessQrData", <<>>, data))]
    /\ UserActs
    /\ UNCHANGED << app, conns, pending, worker_out, otherVars >>

(***************************************************************************)
(* App::update                                                             *)
(***************************************************************************)
ShowRtcDialog(p) ==
    /\ Handles(p, "ShowRtcDialog")
    /\ app' = [app EXCEPT ![p].rtc_dialog_visible = TRUE]
    /\ Then(p, <<>>)
    /\ UNCHANGED << conns, worker_in, worker_out, hist, otherVars >>

HideChatView(p) ==
    /\ Handles(p, "HideChatView")
    /\ app' = [app EXCEPT ![p].chat_visible = FALSE]
    /\ Then(p, <<>>)
    /\ UNCHANGED << conns, worker_in, worker_out, hist, otherVars >>

ShowDialog(p) ==
    /\ Handles(p, "ShowDialog")
    /\ LET m == Head(pending[p])
       IN  app' = [app EXCEPT ![p].dialog_message =
                        << [text |-> m.tag, data |-> m.data] >>]
    /\ Then(p, <<>>)
    /\ UNCHANGED << conns, worker_in, worker_out, hist, otherVars >>

ShowEncryptedQr(p) ==
    /\ Handles(p, "ShowEncryptedQr")
    /\ app' = [app EXCEPT ![p].encrypted_qr_data = << Head(pending[p]).data >>]
    /\ Then(p, <<>>)
    /\ UNCHANGED << conns, worker_in, worker_out, hist, otherVars >>

ShowPrivateKeyImportConfirm(p) ==
    /\ Handles(p, "ShowPrivateKeyImportConfirm")
    /\ app' = [app EXCEPT ![p].private_key_to_import = << Head(pending[p]).data >>]
    /\ Then(p, <<>>)
    /\ UNCHANGED << conns, worker_in, worker_out, hist, otherVars >>

\* HashMap::insert and HashMap::remove
insert(map, k, v) ==
    [n \in DOMAIN map \cup {k} |-> IF n = k THEN v ELSE map[n]]

remove(map, k) == [n \in DOMAIN map \ {k} |-> map[n]]

\* HashMap::entry(k).or_insert(v): an insert that keeps the value stored
\* under k
insert_absent(map, k, v) ==
    [n \in DOMAIN map \cup {k} |-> IF n \in DOMAIN map THEN map[n] ELSE v]

\* App::add_contact and App::delete_contact (save_contacts writes the map
\* to storage, which nothing reads before the next start)
add_contact_keeps(state, name, public_key) ==
    [state EXCEPT !.contacts = insert_absent(@, name, public_key)]

add_contact(state, name, public_key) ==
    [state EXCEPT !.contacts = insert(@, name, public_key)]

delete_contact(state, name) ==
    [state EXCEPT !.contacts = remove(@, name)]

ShowAddContactDialog(p) ==
    /\ Handles(p, "ShowAddContactDialog")
    /\ app' = [app EXCEPT ![p].public_key_to_add = << Head(pending[p]).data >>]
    /\ Then(p, <<>>)
    /\ UNCHANGED << conns, worker_in, worker_out, hist, otherVars >>

HideAddContactDialog(p) ==
    /\ Handles(p, "HideAddContactDialog")
    /\ app' = [app EXCEPT ![p].public_key_to_add = <<>>]
    /\ Then(p, <<>>)
    /\ UNCHANGED << conns, worker_in, worker_out, hist, otherVars >>

ConfirmAddContact(p) ==
    /\ Handles(p, "ConfirmAddContact")
    /\ LET name == Head(pending[p]).data
       IN  app' = [app EXCEPT ![p] =
                      IF @.public_key_to_add # <<>> /\ ~trim_is_empty(name)
                      THEN [add_contact(@, name, @.public_key_to_add[1])
                               EXCEPT !.public_key_to_add = <<>>]
                      ELSE @]
    /\ Then(p, <<>>)
    /\ UNCHANGED << conns, worker_in, worker_out, hist, otherVars >>

ShowDeleteConfirm(p) ==
    /\ Handles(p, "ShowDeleteConfirm")
    /\ app' = [app EXCEPT ![p].delete_target = << Head(pending[p]).data >>]
    /\ Then(p, <<>>)
    /\ UNCHANGED << conns, worker_in, worker_out, hist, otherVars >>

ConfirmDeleteContact(p) ==
    /\ Handles(p, "ConfirmDeleteContact")
    /\ app' = [app EXCEPT ![p] =
                   [delete_contact(@, Head(pending[p]).data)
                       EXCEPT !.delete_target = <<>>]]
    /\ Then(p, <<>>)
    /\ UNCHANGED << conns, worker_in, worker_out, hist, otherVars >>

\* my_keys is present, and so is the worker
ExportPrivateKey(p) ==
    /\ Handles(p, "ExportPrivateKey")
    /\ LET recipient_name == Head(pending[p]).data
       IN  IF recipient_name \in DOMAIN app[p].contacts
           THEN /\ worker_in' = [worker_in EXCEPT ![p] =
                       Append(@, MainMessage("ExportPrivateKey",
                                             app[p].contacts[recipient_name],
                                             app[p].my_keys.private_key))]
                /\ Then(p, <<>>)
           ELSE /\ worker_in' = worker_in
                /\ Then(p, << Msg("ShowDialog", "Contact not found", <<>>) >>)
    /\ UNCHANGED << app, conns, worker_out, hist, otherVars >>

\* the request is posted and the dialog stays as it is
ConfirmImportPrivateKey(p) ==
    /\ Handles(p, "ConfirmImportPrivateKey")
    /\ worker_in' = [worker_in EXCEPT ![p] =
                        IF app[p].private_key_to_import # <<>>
                        THEN Append(@, MainMessage("GeneratePublicKeyFromPrivate",
                                                   app[p].private_key_to_import[1],
                                                   <<>>))
                        ELSE @]
    /\ hist' = [hist EXCEPT !.confirmed[p] =
                   @ \cup { app[p].private_key_to_import[i] :
                               i \in DOMAIN app[p].private_key_to_import }]
    /\ Then(p, <<>>)
    /\ UNCHANGED << app, conns, worker_out, otherVars >>

CancelImportPrivateKey(p) ==
    /\ Handles(p, "CancelImportPrivateKey")
    /\ app' = [app EXCEPT ![p].private_key_to_import = <<>>]
    /\ hist' = [hist EXCEPT !.confirmed[p] = {}]
    /\ Then(p, <<>>)
    /\ UNCHANGED << conns, worker_in, worker_out, otherVars >>

\* Msg::ImportPrivateKeyWithPublicKey(private_key, public_key): the
\* message carries the private key in key and the public key in data
ImportPrivateKeyWithPublicKey(p) ==
    /\ Handles(p, "ImportPrivateKeyWithPublicKey")
    /\ LET m == Head(pending[p])
       IN  app' = [app EXCEPT
                      ![p].my_keys = [public_key |-> m.data,
                                      private_key |-> m.key],
                      ![p].private_key_to_import = <<>>]
    /\ Then(p, << Msg("ShowDialog",
                      "Private key imported and saved successfully!", <<>>) >>)
    /\ UNCHANGED << conns, worker_in, worker_out, hist, otherVars >>

\* the encrypt_message branch of HandleCustomEvent: the request it posts
\* and the messages it queues (data that is no JSON is dropped)
EncryptMessageEvent(state, data) ==
    LET parsed == JsonReadObject2(data, ContactField, MessageField)
    IN  IF ~parsed.ok THEN [posts |-> <<>>, queues |-> <<>>]
        ELSE IF parsed.first \in DOMAIN state.contacts
        THEN [posts |-> << MainMessage("Encrypt",
                                       state.contacts[parsed.first],
                                       parsed.second) >>,
              queues |-> <<>>]
        ELSE [posts |-> <<>>,
              queues |-> << Msg("ShowDialog", "Contact not found", <<>>) >>]

\* the public_key_generated branch
PublicKeyGeneratedEvent(state, data) ==
    IF state.private_key_to_import # <<>>
    THEN << [Msg("ImportPrivateKeyWithPublicKey", "", data)
                EXCEPT !.key = state.private_key_to_import[1]] >>
    ELSE <<>>

\* the branches of the events that are raised (delete_contact is raised by
\* nothing: the contact list sends Msg::ShowDeleteConfirm itself)
HandleCustomEvent(p) ==
    /\ Handles(p, "HandleCustomEvent")
    /\ LET event_type == Head(pending[p]).tag
           data == Head(pending[p]).data
           for_chat == app[p].rtc_connected /\ app[p].chat_visible
           encrypt == EncryptMessageEvent(app[p], data)
       IN  /\ worker_in' = IF event_type = "encrypt_message"
                           THEN [worker_in EXCEPT ![p] = @ \o encrypt.posts]
                           ELSE worker_in
           /\ Then(p,
              IF event_type = "process_rtc_signal"
              THEN << Msg("ProcessRtcSignal", "", data) >>
              ELSE IF event_type = "add_contact"
              THEN << Msg("ShowAddContactDialog", "", data) >>
              ELSE IF event_type = "encrypt_message"
              THEN encrypt.queues
              ELSE IF event_type = "public_key_generated"
              THEN PublicKeyGeneratedEvent(app[p], data)
              ELSE IF event_type = "decrypt_message"
              THEN << Msg("DecryptMessage", "", data) >>
              ELSE IF event_type = "show_dialog"
              THEN << Msg("ShowDialog", "", data) >>
              ELSE IF event_type = "show_encrypted_qr"
              THEN << Msg("ShowEncryptedQr", "", data) >>
              ELSE IF event_type = "encrypted_message_ready"
              THEN IF for_chat
                   THEN << Msg("SendEncryptedChatMessage", "", data) >>
                   ELSE dispatch_custom_event("show_encrypted_qr", data)
              ELSE IF event_type = "decrypted_message_ready"
              THEN IF for_chat
                   THEN << Msg("AddChatMessage", "received", data) >>
                   ELSE dispatch_custom_event("show_dialog", data)
              ELSE <<>>)
    /\ UNCHANGED << app, conns, worker_out, hist, otherVars >>

StartRtcConnection(p) ==
    /\ Handles(p, "StartRtcConnection")
    /\ LET c == Len(conns) + 1
       IN  /\ conns' = Append(conns, NewConnection(p))
           /\ app' = [app EXCEPT ![p].rtc_connected = FALSE,
                                 ![p].rtc_peer_public_key = <<>>,
                                 ![p].rtc_dialog_visible = FALSE,
                                 ![p].rtc_connection = << c >>]
           /\ Then(p, << Task("start_connection", c, <<>>, <<>>) >>)
    /\ hist' = [hist EXCEPT !.last_key[p] = <<>>]
    /\ UNCHANGED << worker_in, worker_out, otherVars >>

\* Msg::ProcessRtcSignal that makes a Connection for an Answer when
\* there is none
RtcSignal_fresh(p, signal_data, c) ==
    IF ~signal_data.ok
    THEN /\ Then(p, << Msg("ShowDialog", "Invalid RTC signal format", <<>>) >>)
         /\ UNCHANGED << app, conns >>
    ELSE IF signal_data.tag = OfferTag
    THEN /\ conns' = Append(conns, NewConnection(p))
         /\ app' = [app EXCEPT ![p].rtc_connection = << c >>]
         /\ Then(p, << Task("recv_offer", c, <<>>, signal_data.value) >>)
    ELSE IF app[p].rtc_connection # <<>>
    THEN /\ Then(p, << Task("recv_answer", app[p].rtc_connection[1],
                            <<>>, signal_data.value) >>)
         /\ UNCHANGED << app, conns >>
    ELSE /\ conns' = Append(conns, NewConnection(p))
         /\ app' = [app EXCEPT ![p].rtc_connection = << c >>]
         /\ Then(p, << Task("recv_answer", c, <<>>, signal_data.value) >>)

RtcSignal(p, signal_data, c) ==
    IF ~signal_data.ok
    THEN /\ Then(p, << Msg("ShowDialog", "Invalid RTC signal format", <<>>) >>)
         /\ UNCHANGED << app, conns >>
    ELSE IF signal_data.tag = OfferTag
    THEN /\ conns' = Append(conns, NewConnection(p))
         /\ app' = [app EXCEPT ![p].rtc_connection = << c >>]
         /\ Then(p, << Task("recv_offer", c, <<>>, signal_data.value) >>)
    ELSE IF app[p].rtc_connection # <<>>
    THEN /\ Then(p, << Task("recv_answer", app[p].rtc_connection[1],
                            <<>>, signal_data.value) >>)
         /\ UNCHANGED << app, conns >>
    ELSE /\ Then(p, <<>>)
         /\ UNCHANGED << app, conns >>

\* the parse fails, or the signal is an Answer and there is no connection
Refused(p, signal_data) ==
    \/ ~signal_data.ok
    \/ signal_data.tag = AnswerTag /\ app[p].rtc_connection = <<>>

ProcessRtcSignal(p) ==
    /\ Handles(p, "ProcessRtcSignal")
    /\ RtcSignal(p, RtcSignalDataFromStr(Head(pending[p]).data), Len(conns) + 1)
    /\ hist' = IF Refused(p, RtcSignalDataFromStr(Head(pending[p]).data))
               THEN [hist EXCEPT !.refused = @ \cup
                        { [peer |-> p,
                           parsed |-> RtcSignalDataFromStr(Head(pending[p]).data).ok,
                           conns |-> Len(conns)] }]
               ELSE hist
    /\ UNCHANGED << worker_in, worker_out, otherVars >>

\* Msg::RtcConnectionEstablished that starts the public key exchange
\* itself
RtcConnectionEstablished_sends(p) ==
    /\ Handles(p, "RtcConnectionEstablished")
    /\ app' = [app EXCEPT ![p].rtc_connected = TRUE,
                          ![p].rtc_dialog_visible = FALSE,
                          ![p].chat_visible = TRUE]
    /\ Then(p, << Msg("SendPublicKeyViaRtc", "", <<>>) >>)
    /\ UNCHANGED << conns, worker_in, worker_out, hist, otherVars >>

RtcConnectionEstablished(p) ==
    /\ Handles(p, "RtcConnectionEstablished")
    /\ app' = [app EXCEPT ![p].rtc_connected = TRUE,
                          ![p].rtc_dialog_visible = FALSE,
                          ![p].chat_visible = TRUE]
    /\ Then(p, <<>>)
    /\ UNCHANGED << conns, worker_in, worker_out, hist, otherVars >>

\* my_keys is present in every state of the session
SendPublicKeyViaRtc(p) ==
    /\ Handles(p, "SendPublicKeyViaRtc")
    /\ Then(p,
          IF app[p].rtc_connection # <<>>
          THEN << Task("send_public_key", app[p].rtc_connection[1],
                       app[p].my_keys.public_key, <<>>) >>
          ELSE << Msg("ShowDialog", "No RTC connection available", <<>>) >>)
    /\ UNCHANGED << app, conns, worker_in, worker_out, hist, otherVars >>

\* what the caller of send_message queues for its result
PublicKeySent(sent) ==
    IF sent.result = "Err"
    THEN << Msg("ShowDialog", "Failed to send public key", <<>>) >>
    ELSE <<>>

Sends(p, c, sort, registered, sent, more) ==
    /\ conns' = Transmit(registered, c, sent.wire)
    /\ Then(p, more)
    /\ hist' = [hist EXCEPT !.sends = @ \cup
                   { SendRecord(c, sort, conns[c].channel, sent, more) }]

SendsPublicKey(p, c, registered, sent) ==
    Sends(p, c, "publicKey", registered, sent, PublicKeySent(sent))

SendsPublicKeyOn(p, c, registered) ==
    SendsPublicKey(p, c, registered,
                   send_message(registered[c], PublicKey(Head(pending[p]).key)))

\* the future SendPublicKeyViaRtc spawns: set_data_handler, send_message
SendPublicKeyTask(p) ==
    /\ Handles(p, "send_public_key")
    /\ SendsPublicKeyOn(p, Head(pending[p]).conn,
                        [conns EXCEPT ![Head(pending[p]).conn] = set_data_handler(@)])
    /\ UNCHANGED << app, worker_in, worker_out, otherVars >>

\* p's session is wired to the session its peer holds, both sides are
\* connected with their channels open, and each has the other's public key
Exchanged(p) ==
    /\ app[p].rtc_connection # <<>>
    /\ conns[app[p].rtc_connection[1]].remote # 0
    /\ LET c == app[p].rtc_connection[1]
           d == conns[c].remote
           q == conns[d].owner
       IN  /\ Wired(c, d)
           /\ app[q].rtc_connection = << d >>
           /\ app[p].rtc_connected /\ app[q].rtc_connected
           /\ conns[c].channel = "open" /\ conns[d].channel = "open"
           /\ app[p].rtc_peer_public_key = << app[q].my_keys.public_key >>
           /\ app[q].rtc_peer_public_key = << app[p].my_keys.public_key >>

\* what Msg::SendChatMessage queues
SendChatMessageQueues(p, message) ==
    IF app[p].rtc_connection = <<>> THEN <<>>
    ELSE IF app[p].rtc_peer_public_key # <<>>
    THEN << Task("post_encrypt", 0, app[p].rtc_peer_public_key[1], message) >>
    ELSE << Msg("ShowDialog", "Peer public key not available", <<>>) >>

\* Msg::SendChatMessage that encrypts to the own key while the peer's is
\* missing
SendChatMessage_own_key(p) ==
    /\ Handles(p, "SendChatMessage")
    /\ LET message == Head(pending[p]).data
       IN  /\ Then(p,
                 IF app[p].rtc_connection = <<>> THEN <<>>
                 ELSE IF app[p].rtc_peer_public_key # <<>>
                 THEN << Task("post_encrypt", 0,
                              app[p].rtc_peer_public_key[1], message) >>
                 ELSE << Task("post_encrypt", 0,
                              app[p].my_keys.public_key, message) >>)
           /\ hist' = [hist EXCEPT !.chats = @ \cup
                          { [peer |-> p, exchanged |-> Exchanged(p),
                             text |-> message] }]
    /\ UNCHANGED << app, conns, worker_in, worker_out, otherVars >>

SendChatMessage(p) ==
    /\ Handles(p, "SendChatMessage")
    /\ LET message == Head(pending[p]).data
       IN  /\ Then(p, SendChatMessageQueues(p, message))
           /\ hist' = [hist EXCEPT !.chats = @ \cup
                          { [peer |-> p, exchanged |-> Exchanged(p),
                             text |-> message] }]
    /\ UNCHANGED << app, conns, worker_in, worker_out, otherVars >>

\* the future SendChatMessage spawns: the Encrypt request is posted and
\* the message is added to the chat as sent
PostEncryptTask(p) ==
    /\ Handles(p, "post_encrypt")
    /\ LET t == Head(pending[p])
       IN  /\ worker_in' = [worker_in EXCEPT ![p] =
                               Append(@, MainMessage("Encrypt", t.key, t.data))]
           /\ Then(p, << Msg("AddChatMessage", "sent", t.data) >>)
    /\ UNCHANGED << app, conns, worker_out, hist, otherVars >>

AddChatMessage(p) ==
    /\ Handles(p, "AddChatMessage")
    /\ LET m == Head(pending[p])
       IN  app' = [app EXCEPT ![p].chat_messages =
                        Append(@, [content |-> m.data, is_sent |-> m.tag = "sent"])]
    /\ Then(p, <<>>)
    /\ UNCHANGED << conns, worker_in, worker_out, hist, otherVars >>

\* Msg::SetPeerPublicKey that keeps the key it has
SetPeerPublicKey_first(p) ==
    /\ Handles(p, "SetPeerPublicKey")
    /\ app' = [app EXCEPT ![p].rtc_peer_public_key =
                   IF @ = <<>> THEN << Head(pending[p]).data >> ELSE @]
    /\ Then(p, <<>>)
    /\ UNCHANGED << conns, worker_in, worker_out, hist, otherVars >>

SetPeerPublicKey(p) ==
    /\ Handles(p, "SetPeerPublicKey")
    /\ app' = [app EXCEPT ![p].rtc_peer_public_key = << Head(pending[p]).data >>]
    /\ Then(p, <<>>)
    /\ UNCHANGED << conns, worker_in, worker_out, hist, otherVars >>

DecryptReceivedMessage(p) ==
    /\ Handles(p, "DecryptReceivedMessage")
    /\ Then(p, << Task("post_decrypt", 0, app[p].my_keys.private_key,
                       Head(pending[p]).data) >>)
    /\ UNCHANGED << app, conns, worker_in, worker_out, hist, otherVars >>

\* the future DecryptReceivedMessage spawns
PostDecryptTask(p) ==
    /\ Handles(p, "post_decrypt")
    /\ LET t == Head(pending[p])
       IN  worker_in' = [worker_in EXCEPT ![p] =
                            Append(@, MainMessage("Decrypt", t.key, t.data))]
    /\ Then(p, <<>>)
    /\ UNCHANGED << app, conns, worker_out, hist, otherVars >>

\* decrypt_and_show_message
DecryptMessage(p) ==
    /\ Handles(p, "DecryptMessage")
    /\ worker_in' = [worker_in EXCEPT ![p] =
                        Append(@, MainMessage("Decrypt", app[p].my_keys.private_key,
                                              Head(pending[p]).data))]
    /\ Then(p, <<>>)
    /\ UNCHANGED << app, conns, worker_out, hist, otherVars >>

SendEncryptedChatMessage(p) ==
    /\ Handles(p, "SendEncryptedChatMessage")
    /\ IF app[p].rtc_connection = <<>>
       THEN /\ Then(p, <<>>)
            /\ UNCHANGED << conns, hist >>
       ELSE Sends(p, app[p].rtc_connection[1], "encryptedData", conns,
                  send_message(conns[app[p].rtc_connection[1]],
                               EncryptedData(Head(pending[p]).data)),
                  <<>>)
    /\ UNCHANGED << app, worker_in, worker_out, otherVars >>

(***************************************************************************)
(* rtc.rs: the futures of Connection and the promises they await           *)
(***************************************************************************)
\* start_connection up to create_offer().await
StartConnectionTask(p) ==
    /\ Handles(p, "start_connection")
    /\ LET c == Head(pending[p]).conn
       IN  conns' = [conns EXCEPT ![c].is_initiator = TRUE,
                                  ![c].channel = "connecting",
                                  ![c].pos = "create_offer"]
    /\ Then(p, <<>>)
    /\ UNCHANGED << app, worker_in, worker_out, hist, otherVars >>

\* create_offer() resolves: set_local_description(offer).await
CreateOfferResolved(c) ==
    /\ c \in DOMAIN conns
    /\ conns[c].pos = "create_offer"
    /\ Settled
    /\ conns' = [conns EXCEPT ![c].pos = "set_local_description"]
    /\ UNCHANGED << app, pending, worker_in, worker_out, hist, otherVars >>

\* set_local_description() resolves: the future returns Ok
SetLocalDescriptionResolved(c) ==
    /\ c \in DOMAIN conns
    /\ conns[c].pos = "set_local_description"
    /\ Settled
    /\ conns' = [conns EXCEPT
                    ![c].local = IF conns[c].is_initiator THEN "offer" ELSE "answer",
                    ![c].pos = "done"]
    /\ UNCHANGED << app, pending, worker_in, worker_out, hist, otherVars >>

\* the signal the callbacks of StartRtcConnection and ProcessRtcSignal
\* make of the local description of c
LocalSignalOf(sdp_type, c) ==
    RtcSignalDataToString(sdp_type, SessionDescriptionToString(sdp_type, Sdp(c)))

LocalSignal(c) ==
    LocalSignalOf(IF conns[c].is_initiator THEN OfferTag ELSE AnswerTag, c)

\* callback_closure that hands the local description to the callback on
\* every icecandidate event
callback_closure_each(c, candidate) ==
    IF conns[c].local = "none" THEN <<>>
    ELSE << Msg("ShowEncryptedQr", "", LocalSignal(c)) >>

\* callback_closure (onicecandidate) of start_connection and recv_offer:
\* a candidate is logged; the event without a candidate hands the local
\* description to the callback, which sends the signal to show
callback_closure(c, candidate) ==
    IF candidate THEN <<>>
    ELSE IF conns[c].local = "none" THEN <<>>
    ELSE << Msg("ShowEncryptedQr", "", LocalSignal(c)) >>

\* onicecandidate with a candidate, found after set_local_description
IceCandidate(c) ==
    /\ c \in DOMAIN conns
    /\ conns[c].local # "none"
    /\ ~conns[c].gathered
    /\ ~conns[c].gathering
    /\ Settled
    /\ conns' = [conns EXCEPT ![c].gathering = TRUE]
    /\ Queues(conns[c].owner, callback_closure(c, TRUE))
    /\ UNCHANGED << app, worker_in, worker_out, hist, otherVars >>

\* onicecandidate with no candidate: gathering is complete
IceGatheringComplete(c) ==
    /\ c \in DOMAIN conns
    /\ conns[c].local # "none"
    /\ ~conns[c].gathered
    /\ Settled
    /\ conns' = [conns EXCEPT ![c].gathering = FALSE, ![c].gathered = TRUE]
    /\ Queues(conns[c].owner, callback_closure(c, FALSE))
    /\ UNCHANGED << app, worker_in, worker_out, hist, otherVars >>

\* recv_offer that goes to set_remote_description without having called
\* set_ondatachannel
OfferReceived_unregistered(c, session_desc) ==
    IF session_desc.ok
    THEN [conns EXCEPT ![c].sdp = session_desc.sdp,
                       ![c].pos = "set_remote_description"]
    ELSE [conns EXCEPT ![c].pos = "failed"]

\* recv_offer up to set_remote_description(offer).await
OfferReceived(c, session_desc) ==
    IF session_desc.ok
    THEN [conns EXCEPT ![c].ondatachannel = TRUE,
                       ![c].sdp = session_desc.sdp,
                       ![c].pos = "set_remote_description"]
    ELSE [conns EXCEPT ![c].ondatachannel = TRUE,
                       ![c].pos = "failed"]

RecvOfferTask(p) ==
    /\ Handles(p, "recv_offer")
    /\ conns' = OfferReceived(Head(pending[p]).conn,
                              SessionDescriptionFromStr(Head(pending[p]).data))
    /\ Then(p, <<>>)
    /\ UNCHANGED << app, worker_in, worker_out, hist, otherVars >>

\* set_remote_description(offer) settles: create_answer().await, or the
\* future returns Err when the browser rejects the description
SetRemoteDescriptionResolved(c) ==
    /\ c \in DOMAIN conns
    /\ conns[c].pos = "set_remote_description"
    /\ Settled
    /\ LET d == SdpConn(conns[c].sdp)
           valid == /\ d \in DOMAIN conns
                    /\ d # c
                    /\ conns[d].is_initiator
       IN  conns' = IF valid
                    THEN [conns EXCEPT ![c].remote = d, ![c].pos = "create_answer"]
                    ELSE [conns EXCEPT ![c].pos = "failed"]
    /\ UNCHANGED << app, pending, worker_in, worker_out, hist, otherVars >>

\* create_answer() resolves: set_local_description(answer).await
CreateAnswerResolved(c) ==
    /\ c \in DOMAIN conns
    /\ conns[c].pos = "create_answer"
    /\ Settled
    /\ conns' = [conns EXCEPT ![c].pos = "set_local_description"]
    /\ UNCHANGED << app, pending, worker_in, worker_out, hist, otherVars >>

\* recv_answer up to set_remote_description(answer).await
AnswerReceived(c, session_desc) ==
    IF session_desc.ok
    THEN [conns EXCEPT ![c].answer = << session_desc.sdp >>]
    ELSE conns

\* recv_answer returned Err on c
Rejects(c) == hist' = [hist EXCEPT !.rejected = @ \cup {c}]

RecvAnswerParsed(p, c, session_desc) ==
    /\ conns' = AnswerReceived(c, session_desc)
    /\ IF session_desc.ok THEN UNCHANGED hist ELSE Rejects(c)

RecvAnswerTask(p) ==
    /\ Handles(p, "recv_answer")
    /\ RecvAnswerParsed(p, Head(pending[p]).conn,
                        SessionDescriptionFromStr(Head(pending[p]).data))
    /\ Then(p, <<>>)
    /\ UNCHANGED << app, worker_in, worker_out, otherVars >>

\* set_remote_description(answer) settles: the browser applies an answer
\* to a connection that has made an offer and has no answer yet, and
\* rejects it otherwise (the error is logged)
SetRemoteAnswerResolved(c) ==
    /\ c \in DOMAIN conns
    /\ conns[c].answer # <<>>
    /\ Settled
    /\ LET d == SdpConn(conns[c].answer[1])
           valid == /\ conns[c].local = "offer"
                    /\ conns[c].remote = 0
                    /\ d \in DOMAIN conns
                    /\ d # c
                    /\ ~conns[d].is_initiator
       IN  IF valid
           THEN /\ conns' = [conns EXCEPT ![c].remote = d, ![c].answer = <<>>]
                /\ UNCHANGED hist
           ELSE /\ conns' = [conns EXCEPT ![c].answer = <<>>]
                /\ Rejects(c)
    /\ UNCHANGED << app, pending, worker_in, worker_out, otherVars >>

(***************************************************************************)
(* The browser: ICE, the data channel, and the events they queue           *)
(***************************************************************************)
\* the two ends connect: each queues the ICE state change, the offering
\* end the open of its channel, the answering end the datachannel event
Establish(c, d) ==
    /\ c \in DOMAIN conns /\ d \in DOMAIN conns
    /\ conns[c].is_initiator
    /\ Wired(c, d)
    /\ conns[d].local = "answer"
    /\ Settled
    /\ conns[c].ice = "new"
    /\ conns[d].ice = "new"
    /\ conns' = [conns EXCEPT
                    ![c].ice = "connected",
                    ![c].events = @ \o << Event("iceconnectionstatechange", <<>>),
                                          Event("open", <<>>) >>,
                    ![d].ice = "connected",
                    ![d].events = @ \o << Event("iceconnectionstatechange", <<>>),
                                          Event("datachannel", <<>>) >>]
    /\ UNCHANGED << app, pending, worker_in, worker_out, hist, otherVars >>

\* one more change by the network, while the run allows it
NetworkChanges == hist' = [hist EXCEPT !.network_changes = @ + 1]

\* the run allows one more
NetworkMayChange == hist.network_changes < MaxNetworkChanges

\* ICE goes from connected to completed
IceCompletes(c) ==
    /\ c \in DOMAIN conns
    /\ NetworkMayChange
    /\ Settled
    /\ conns[c].ice = "connected"
    /\ conns' = [conns EXCEPT
                    ![c].ice = "completed",
                    ![c].events = Append(@, Event("iceconnectionstatechange", <<>>))]
    /\ NetworkChanges
    /\ UNCHANGED << app, pending, worker_in, worker_out, otherVars >>

\* ICE loses the connection it had: the state is Disconnected
IceDisconnects(c) ==
    /\ c \in DOMAIN conns
    /\ NetworkMayChange
    /\ Settled
    /\ conns[c].ice \in {"connected", "completed"}
    /\ conns' = [conns EXCEPT
                    ![c].ice = "disconnected",
                    ![c].events = Append(@, Event("iceconnectionstatechange", <<>>))]
    /\ NetworkChanges
    /\ UNCHANGED << app, pending, worker_in, worker_out, otherVars >>

\* ICE, which has both descriptions, finds no way to the other end, or
\* none any more: the state is Failed, and stays so, as the program never
\* restarts ICE
IceFails(c) ==
    /\ c \in DOMAIN conns
    /\ NetworkMayChange
    /\ Settled
    /\ conns[c].local # "none"
    /\ conns[c].remote # 0
    /\ conns[c].ice \in {"new", "disconnected"}
    /\ conns' = [conns EXCEPT
                    ![c].ice = "failed",
                    ![c].events = Append(@, Event("iceconnectionstatechange", <<>>))]
    /\ NetworkChanges
    /\ UNCHANGED << app, pending, worker_in, worker_out, otherVars >>

\* the next event of c is of this type and its task may start
Fires(c, type) ==
    /\ c \in DOMAIN conns
    /\ conns[c].events # <<>>
    /\ Head(conns[c].events).type = type
    /\ Settled

\* ice_connection_state_closure that calls the callback in every state
\* but New
IceConnectionStateChange_every(c) ==
    /\ Fires(c, "iceconnectionstatechange")
    /\ conns' = [conns EXCEPT ![c].events = Tail(@)]
    /\ Queues(conns[c].owner,
              IF conns[c].ice # "new"
              THEN << Msg("RtcConnectionEstablished", "", <<>>) >>
              ELSE <<>>)
    /\ UNCHANGED << app, worker_in, worker_out, hist, otherVars >>

\* ice_connection_state_closure that calls the callback on Failed too
IceConnectionStateChange_failed(c) ==
    /\ Fires(c, "iceconnectionstatechange")
    /\ conns' = [conns EXCEPT ![c].events = Tail(@)]
    /\ Queues(conns[c].owner,
              IF conns[c].ice \in {"connected", "completed", "failed"}
              THEN << Msg("RtcConnectionEstablished", "", <<>>) >>
              ELSE <<>>)
    /\ UNCHANGED << app, worker_in, worker_out, hist, otherVars >>

\* setup_ice_monitoring: ice_connection_state_closure, which reads the
\* state the connection has when it runs
IceConnectionStateChange(c) ==
    /\ Fires(c, "iceconnectionstatechange")
    /\ conns' = [conns EXCEPT ![c].events = Tail(@)]
    /\ Queues(conns[c].owner,
              IF conns[c].ice \in {"connected", "completed"}
              THEN << Msg("RtcConnectionEstablished", "", <<>>) >>
              ELSE <<>>)
    /\ UNCHANGED << app, worker_in, worker_out, hist, otherVars >>

\* start_connection: open_closure
ChannelOpen(c) ==
    /\ Fires(c, "open")
    /\ conns' = [conns EXCEPT ![c].events = Tail(@), ![c].channel = "open"]
    /\ Queues(conns[c].owner, << Msg("SendPublicKeyViaRtc", "", <<>>) >>)
    /\ UNCHANGED << app, worker_in, worker_out, hist, otherVars >>

\* recv_offer: datachannel_closure stores the channel and sets its
\* onopen, and the channel is announced open in the same task
DataChannel(c) ==
    /\ Fires(c, "datachannel")
    /\ conns' = [conns EXCEPT
                    ![c].events = Tail(@),
                    ![c].channel = IF conns[c].ondatachannel THEN "open" ELSE @]
    /\ Queues(conns[c].owner,
              IF conns[c].ondatachannel
              THEN << Msg("SendPublicKeyViaRtc", "", <<>>) >>
              ELSE <<>>)
    /\ UNCHANGED << app, worker_in, worker_out, hist, otherVars >>

\* set_data_handler: message_closure; without onmessage the event has no
\* listener
ChannelMessageHandled(c, data, queued) ==
    /\ Queues(conns[c].owner, queued)
    /\ hist' = [hist EXCEPT
                   !.delivered = @ \cup { [conn |-> c, data |-> data] },
                   !.last_key[conns[c].owner] =
                       IF queued # <<>> /\ queued[1].msg = "SetPeerPublicKey"
                       THEN << queued[1].data >> ELSE @]

ChannelMessage(c) ==
    /\ Fires(c, "message")
    /\ ChannelMessageHandled(c, Head(conns[c].events).data,
                             IF conns[c].onmessage
                             THEN data_handler(Head(conns[c].events).data)
                             ELSE <<>>)
    /\ conns' = [conns EXCEPT ![c].events = Tail(@)]
    /\ UNCHANGED << app, worker_in, worker_out, otherVars >>

\* "abc"
ShortKey == << 97, 98, 99 >>

\* the key strings the other end may put into a PublicKey envelope
InjectedKeys == { PublicKeyOf(1), PublicKeyOf(NumKeys), ShortKey }

\* the other end of an open channel sends one more PublicKey envelope
PeerSendsKey(c) ==
    /\ c \in DOMAIN conns
    /\ Settled
    /\ hist.injected < MaxInjected
    /\ conns[c].channel = "open"
    /\ conns[c].onmessage
    /\ \E k \in InjectedKeys :
          conns' = [conns EXCEPT ![c].events =
                       Append(@, Event("message", RtcMessageToString(PublicKey(k))))]
    /\ hist' = [hist EXCEPT !.injected = @ + 1]
    /\ UNCHANGED << app, pending, worker_in, worker_out, otherVars >>

\* the channel's readyState becomes closed (the other end went away, or
\* the transport was lost); the code registers no onclose
ChannelCloses(c) ==
    /\ c \in DOMAIN conns
    /\ NetworkMayChange
    /\ conns[c].channel = "open"
    /\ Settled
    /\ conns' = [conns EXCEPT ![c].channel = "closed"]
    /\ NetworkChanges
    /\ UNCHANGED << app, pending, worker_in, worker_out, otherVars >>

(***************************************************************************)
(* The worker                                                              *)
(***************************************************************************)
\* worker_main: onmessage, for MainMessage::Encrypt and ::Decrypt
EncryptResponse(encrypted) ==
    IF encrypted.tag = "Ok" THEN WorkerMessage("Encrypted", encrypted.val)
    ELSE WorkerMessage("Error", <<>>)

DecryptResponse(decrypted) ==
    IF decrypted.tag = "OkSome" THEN WorkerMessage("Decrypted", decrypted.val)
    ELSE WorkerMessage("Error", <<>>)

\* for MainMessage::ProcessQrData: the slice of the preview panics in the
\* future, which then posts nothing
NoResponse == WorkerMessage("none", <<>>)

QrResponse(route) ==
    IF route = Panic THEN NoResponse
    ELSE WorkerMessage("QrDataProcessed", route)

\* for MainMessage::ExportPrivateKey and ::GeneratePublicKeyFromPrivate
ExportResponse(encrypted) ==
    IF encrypted.tag = "Ok"
    THEN WorkerMessage("PrivateKeyExported", encrypted.val)
    ELSE WorkerMessage("Error", <<>>)

PublicKeyResponse(public_key) ==
    IF public_key.tag = "Ok"
    THEN WorkerMessage("PublicKeyGenerated", public_key.val)
    ELSE WorkerMessage("Error", <<>>)

\* a request that from_value reads as no MainMessage is answered with an
\* Error that reports it unread
worker_response_unread(request, nonce) ==
    IF request.type = "Encrypt"
    THEN EncryptResponse(encrypt_message(request.key, request.data, nonce))
    ELSE IF request.type = "Decrypt"
    THEN DecryptResponse(decrypt_message(request.key, request.data))
    ELSE IF request.type = "ExportPrivateKey"
    THEN ExportResponse(encrypt_message(request.key, request.data, nonce))
    ELSE IF request.type = "GeneratePublicKeyFromPrivate"
    THEN PublicKeyResponse(generate_public_key_from_private(request.key))
    ELSE WorkerMessage("Ready", <<>>)

\* ExportPrivateKey that answers with the key as it is
worker_response_cleartext(request, nonce) ==
    IF request.type = "Encrypt"
    THEN EncryptResponse(encrypt_message(request.key, request.data, nonce))
    ELSE IF request.type = "Decrypt"
    THEN DecryptResponse(decrypt_message(request.key, request.data))
    ELSE IF request.type = "ExportPrivateKey"
    THEN WorkerMessage("PrivateKeyExported", request.data)
    ELSE IF request.type = "GeneratePublicKeyFromPrivate"
    THEN PublicKeyResponse(generate_public_key_from_private(request.key))
    ELSE WorkerMessage("Error", <<>>)

\* the one message the worker posts for a request: an ExportPrivateKey
\* carries the recipient's key in key and the private key in data, a
\* GeneratePublicKeyFromPrivate the private key in key; what from_value
\* does not read as a MainMessage is answered by error_report. The texts
\* of Error are fixed texts and the library's error texts, none of which
\* quotes a key or a message: they are left empty
worker_response(request, nonce) ==
    IF request.type = "Encrypt"
    THEN EncryptResponse(encrypt_message(request.key, request.data, nonce))
    ELSE IF request.type = "Decrypt"
    THEN DecryptResponse(decrypt_message(request.key, request.data))
    ELSE IF request.type = "ExportPrivateKey"
    THEN ExportResponse(encrypt_message(request.key, request.data, nonce))
    ELSE IF request.type = "GeneratePublicKeyFromPrivate"
    THEN PublicKeyResponse(generate_public_key_from_private(request.key))
    ELSE IF request.type = "ProcessQrData"
    THEN QrResponse(worker_process_qr_data(request.data))
    ELSE WorkerMessage("Error", <<>>)

\* for MainMessage::GenerateKeyPair
GenerateResponse(generated) ==
    IF generated.tag = "Ok" THEN WorkerMessage("Generated", generated.val)
    ELSE WorkerMessage("Error", <<>>)

\* what the worker's thread runs first: the script Worker::new names
WorkerLoader == MainMessage("worker_loader", <<>>, <<>>)

\* how a GenerateKeyPair of p's worker can end: with the fresh pair posted,
\* or with generate_key_pair_with_progress or the post of Generated
\* returning Err, which error_report answers
GenerateOutcomes(p) ==
    { [tag |-> "Ok", val |-> KeyPairs[KeyOf(p)]],
      [tag |-> "Err", val |-> <<>>] }

\* worker_main, the start function: onmessage is set and Ready is posted
worker_start(p) ==
    /\ worker_in[p] # <<>>
    /\ Head(worker_in[p]) = WorkerLoader
    /\ worker_out' = [worker_out EXCEPT ![p] =
                         Append(@, WorkerMessage("Ready", <<>>))]
    /\ worker_in' = [worker_in EXCEPT ![p] = Tail(@)]
    /\ hist' = [hist EXCEPT !.worker[p].ready = @ + 1]
    /\ UNCHANGED << app, conns, pending, otherVars >>

\* the worker posts the response, if there is one
Posts(p, response) ==
    /\ worker_out' = [worker_out EXCEPT ![p] =
                         IF response = NoResponse THEN @
                         ELSE Append(@, response)]
    /\ hist' = [hist EXCEPT
                   !.worker[p].early =
                       @ \/ (response # NoResponse /\ hist.worker[p].ready = 0),
                   !.worker[p].silent = @ \/ response = NoResponse]

\* worker_main: onmessage, and the future it spawns, which runs to its end
\* before the next
worker_main(p) ==
    /\ worker_in[p] # <<>>
    /\ Head(worker_in[p]) # WorkerLoader
    /\ LET request == Head(worker_in[p])
       IN  IF request.type = "GenerateKeyPair"
           THEN \E generated \in GenerateOutcomes(p) :
                   Posts(p, GenerateResponse(generated))
           ELSE \E nonce \in 0..MaxSessionNonce :
                   Posts(p, worker_response(request, nonce))
    /\ worker_in' = [worker_in EXCEPT ![p] = Tail(@)]
    /\ UNCHANGED << app, conns, pending, otherVars >>

\* setup_worker: the onmessage of the main thread (error_report:
\* console.error and alert)
WorkerResponse(p) ==
    /\ worker_out[p] # <<>>
    /\ Settled
    /\ LET response == Head(worker_out[p])
       IN  /\ Queues(p,
                 IF response.type = "Ready"
                 THEN << Progress(10), Task("load_keys", 0, <<>>, <<>>) >>
                 ELSE IF response.type = "Generated"
                 THEN << Task("save_keys", 0, response.data, <<>>) >>
                 ELSE IF response.type = "Encrypted"
                 THEN dispatch_custom_event("encrypted_message_ready", response.data)
                 ELSE IF response.type = "Decrypted"
                 THEN IF is_private_key_data(response.data)
                      THEN << Msg("ShowPrivateKeyImportConfirm", "", response.data) >>
                      ELSE dispatch_custom_event("decrypted_message_ready",
                                                 response.data)
                 ELSE IF response.type = "PrivateKeyExported"
                 THEN dispatch_custom_event("show_encrypted_qr", response.data)
                 ELSE IF response.type = "PublicKeyGenerated"
                 THEN dispatch_custom_event("public_key_generated",
                                            response.data)
                 ELSE IF response.type = "QrDataProcessed"
                 THEN Dispatched(response.data)
                 ELSE <<>>)
           /\ hist' = IF response.type = "Error"
                      THEN [hist EXCEPT !.alerts = @ \cup {p}]
                      ELSE hist
    /\ worker_out' = [worker_out EXCEPT ![p] = Tail(@)]
    /\ UNCHANGED << app, conns, worker_in, otherVars >>

(***************************************************************************)
(* Loading: App::create sends LoadMyKeys, setup_worker starts the worker,  *)
(* and the worker's Ready starts the search for the stored keys.           *)
(***************************************************************************)
\* what load_my_keys and load_contacts can find in localStorage: nothing,
\* or what an earlier run of the installation saved
StoredKeys(p) == { NoKeys, KeyPairs[KeyOf(p)] }

StoredContactMaps == { << >>, StoredContacts }

\* Msg::KeysLoaded(keys, contacts)
KeysLoadedMsg(keys, contacts) ==
    [Msg("KeysLoaded", "", contacts) EXCEPT !.key = keys]

\* the main view is rendered, with its buttons and its QR reader
MainViewShown(p) == ~app[p].is_loading /\ app[p].my_keys # NoKeys

\* Msg::LoadMyKeys: initialize_app, setup_worker (the Worker is created
\* and its onmessage is set)
LoadMyKeys(p) ==
    /\ Handles(p, "LoadMyKeys")
    /\ worker_in' = [worker_in EXCEPT ![p] = Append(@, WorkerLoader)]
    /\ Then(p, <<>>)
    /\ UNCHANGED << app, conns, worker_out, hist, otherVars >>

\* the future the Ready branch of onmessage spawns
LoadKeysTask(p) ==
    /\ Handles(p, "load_keys")
    /\ \E keys \in StoredKeys(p), contacts \in StoredContactMaps :
          Then(p,
               IF keys # NoKeys
               THEN << Progress(20), Progress(90), Progress(100),
                       Msg("SetLoading", "false", <<>>),
                       KeysLoadedMsg(keys, contacts) >>
               ELSE << Progress(20), Progress(30),
                       Msg("GenerateKeys", "", <<>>) >>)
    /\ UNCHANGED << app, conns, worker_in, worker_out, hist, otherVars >>

\* Msg::GenerateKeys: generate_new_keys (the worker is there since
\* setup_worker)
GenerateKeys(p) ==
    /\ Handles(p, "GenerateKeys")
    /\ Then(p, << Progress(40), Task("post_generate", 0, <<>>, <<>>) >>)
    /\ UNCHANGED << app, conns, worker_in, worker_out, hist, otherVars >>

\* the future generate_new_keys spawns: the request is posted, or
\* post_message returns Err
PostGenerateTask(p) ==
    /\ Handles(p, "post_generate")
    /\ \E posted \in BOOLEAN :
          IF posted
          THEN /\ worker_in' = [worker_in EXCEPT ![p] =
                      Append(@, MainMessage("GenerateKeyPair", <<>>, <<>>))]
               /\ Then(p, << Progress(50) >>)
               /\ hist' = hist
          ELSE /\ worker_in' = worker_in
               /\ Then(p, << Progress(50), Msg("SetLoading", "false", <<>>) >>)
               /\ hist' = [hist EXCEPT !.alerts = @ \cup {p}]
    /\ UNCHANGED << app, conns, worker_out, otherVars >>

\* the future the Generated branch of onmessage spawns
SaveKeysTask(p) ==
    /\ Handles(p, "save_keys")
    /\ LET keys == Head(pending[p]).key
       IN  Then(p, << Progress(85), Progress(100),
                      Msg("SetLoading", "false", <<>>),
                      KeysLoadedMsg(keys, << >>),
                      Msg("DrawQrCode", "", keys.public_key) >>)
    /\ UNCHANGED << app, conns, worker_in, worker_out, hist, otherVars >>

UpdateLoadingProgress(p) ==
    /\ Handles(p, "UpdateLoadingProgress")
    /\ app' = [app EXCEPT ![p].loading_progress = Head(pending[p]).data]
    /\ Then(p, <<>>)
    /\ UNCHANGED << conns, worker_in, worker_out, hist, otherVars >>

SetLoading(p) ==
    /\ Handles(p, "SetLoading")
    /\ app' = [app EXCEPT ![p].is_loading = (Head(pending[p]).tag = "true")]
    /\ Then(p, <<>>)
    /\ UNCHANGED << conns, worker_in, worker_out, hist, otherVars >>

KeysLoaded(p) ==
    /\ Handles(p, "KeysLoaded")
    /\ LET m == Head(pending[p])
       IN  /\ app' = [app EXCEPT ![p].my_keys = m.key,
                                 ![p].contacts = m.data,
                                 ![p].is_loading = FALSE]
           /\ Then(p, << Msg("DrawQrCode", "", m.key.public_key) >>)
    /\ UNCHANGED << conns, worker_in, worker_out, hist, otherVars >>

\* Msg::DrawQrCode: the canvas is drawn after a delay
DrawQrCode(p) ==
    /\ Handles(p, "DrawQrCode")
    /\ Then(p, <<>>)
    /\ UNCHANGED << app, conns, worker_in, worker_out, hist, otherVars >>

Init == CryptoIdle /\ QrIdle /\ SessStart

Next ==
    \/ \E p \in Peers :
          \/ ClickCreateOffer(p)
          \/ ClickSendMyPublicKey(p)
          \/ ClickBack(p)
          \/ ClickSend(p)
          \/ \E q \in Peers : ScanQr(p, q)
          \/ ShowRtcDialog(p)
          \/ HideChatView(p)
          \/ ShowDialog(p)
          \/ ShowEncryptedQr(p)
          \/ ShowPrivateKeyImportConfirm(p)
          \/ HandleCustomEvent(p)
          \/ StartRtcConnection(p)
          \/ ProcessRtcSignal(p)
          \/ RtcConnectionEstablished(p)
          \/ SendPublicKeyViaRtc(p)
          \/ SendPublicKeyTask(p)
          \/ SendChatMessage(p)
          \/ PostEncryptTask(p)
          \/ AddChatMessage(p)
          \/ SetPeerPublicKey(p)
          \/ DecryptReceivedMessage(p)
          \/ PostDecryptTask(p)
          \/ DecryptMessage(p)
          \/ SendEncryptedChatMessage(p)
          \/ StartConnectionTask(p)
          \/ RecvOfferTask(p)
          \/ RecvAnswerTask(p)
          \/ worker_main(p)
          \/ WorkerResponse(p)
    \/ \E c \in 1..MaxConns :
          \/ CreateOfferResolved(c)
          \/ SetLocalDescriptionResolved(c)
          \/ IceCandidate(c)
          \/ IceGatheringComplete(c)
          \/ SetRemoteDescriptionResolved(c)
          \/ CreateAnswerResolved(c)
          \/ SetRemoteAnswerResolved(c)
          \/ IceCompletes(c)
          \/ IceDisconnects(c)
          \/ IceFails(c)
          \/ IceConnectionStateChange(c)
          \/ ChannelOpen(c)
          \/ DataChannel(c)
          \/ ChannelMessage(c)
          \/ ChannelCloses(c)
          \/ \E d \in 1..MaxConns : Establish(c, d)

Spec == Init /\ [][Next]_vars

(***************************************************************************)
(* Specification of the signalling: sessions are started, restarted and    *)
(* connected, signals that the other installation did not make are pasted, *)
(* and the other end sends PublicKey envelopes of its choice; no chat      *)
(* message is typed.                                                       *)
(***************************************************************************)
InitSignal == CryptoIdle /\ QrIdle /\ SessStartWith(MaxSessions, MaxSignalActions)

NextSignal ==
    \/ \E p \in Peers :
          \/ ClickCreateOffer(p)
          \/ ClickBack(p)
          \/ \E q \in Peers : ScanQr(p, q)
          \/ PasteSignal(p)
          \/ ShowRtcDialog(p)
          \/ HideChatView(p)
          \/ ShowDialog(p)
          \/ ShowEncryptedQr(p)
          \/ HandleCustomEvent(p)
          \/ StartRtcConnection(p)
          \/ ProcessRtcSignal(p)
          \/ RtcConnectionEstablished(p)
          \/ SendPublicKeyViaRtc(p)
          \/ SendPublicKeyTask(p)
          \/ SetPeerPublicKey(p)
          \/ StartConnectionTask(p)
          \/ RecvOfferTask(p)
          \/ RecvAnswerTask(p)
    \/ \E c \in 1..MaxSessions :
          \/ CreateOfferResolved(c)
          \/ SetLocalDescriptionResolved(c)
          \/ IceGatheringComplete(c)
          \/ SetRemoteDescriptionResolved(c)
          \/ CreateAnswerResolved(c)
          \/ SetRemoteAnswerResolved(c)
          \/ IceConnectionStateChange(c)
          \/ ChannelOpen(c)
          \/ DataChannel(c)
          \/ ChannelMessage(c)
          \/ PeerSendsKey(c)
          \/ \E d \in 1..MaxSessions : Establish(c, d)

SpecSignal == InitSignal /\ [][NextSignal]_vars

(***************************************************************************)
(* Contacts, messages for QR codes and key import, beside a session.  The  *)
(* run starts in a state of Spec: alice made connection 1 and bob          *)
(* connection 2, the session is established with its keys exchanged, and   *)
(* alice went back to the main view.  Alice's contact is what an earlier   *)
(* run stored.                                                             *)
(***************************************************************************)
ConnOf(p) == IF p = "alice" THEN 1 ELSE 2
OtherPeer(p) == IF p = "alice" THEN "bob" ELSE "alice"

EstablishedApp(p) ==
    [InitialAppState(p) EXCEPT
        !.rtc_connection = << ConnOf(p) >>,
        !.rtc_connected = TRUE,
        !.rtc_peer_public_key = << PublicKeyOf(KeyOf(OtherPeer(p))) >>,
        !.chat_visible = (p = "bob"),
        !.encrypted_qr_data =
            << LocalSignalOf(IF p = "alice" THEN OfferTag ELSE AnswerTag,
                             ConnOf(p)) >>,
        !.contacts = IF p \in AppUsers THEN StoredContacts ELSE << >>]

EstablishedConns ==
    << [NewConnection("alice") EXCEPT
           !.is_initiator = TRUE, !.channel = "open", !.onmessage = TRUE,
           !.pos = "done", !.local = "offer", !.remote = 2,
           !.gathered = TRUE, !.ice = "connected"],
       [NewConnection("bob") EXCEPT
           !.channel = "open", !.ondatachannel = TRUE, !.onmessage = TRUE,
           !.pos = "done", !.sdp = Sdp(1), !.local = "answer", !.remote = 1,
           !.gathered = TRUE, !.ice = "connected"] >>

\* the history of a run that starts here
HistStart(user_limit) ==
    [sends |-> {}, delivered |-> {}, chats |-> {}, alerts |-> {},
     scanned |-> {}, rejected |-> {},
     last_key |-> [p \in Peers |-> app[p].rtc_peer_public_key],
     conn_limit |-> MaxConns, user_limit |-> user_limit,
     user_actions |-> 0, key_sends |-> 0, network_changes |-> 0,
     pastes |-> 0, injected |-> 0, malformed |-> 0,
     confirmed |-> [p \in Peers |-> {}],
     worker |-> [p \in Peers |-> Started],
     refused |-> {}]

AppStart ==
    /\ app = [p \in Peers |-> EstablishedApp(p)]
    /\ conns = EstablishedConns
    /\ pending = [p \in Peers |-> <<>>]
    /\ worker_in = [p \in Peers |-> <<>>]
    /\ worker_out = [p \in Peers |-> <<>>]
    /\ hist = HistStart(MaxAppActions)

InitApp == CryptoIdle /\ QrIdle /\ AppStart

NextApp ==
    \/ \E p \in AppUsers :
          \/ ClickBack(p)
          \/ ClickSend(p)
          \/ ClickEncrypt(p)
          \/ ClickExport(p)
          \/ ScanBlob(p)
          \/ ClickConfirmImport(p)
          \/ ClickCancelImport(p)
          \/ PostMalformed(p)
    \/ \E p \in Peers :
          \/ HideChatView(p)
          \/ ShowDialog(p)
          \/ ShowEncryptedQr(p)
          \/ ShowPrivateKeyImportConfirm(p)
          \/ ExportPrivateKey(p)
          \/ ConfirmImportPrivateKey(p)
          \/ CancelImportPrivateKey(p)
          \/ ImportPrivateKeyWithPublicKey(p)
          \/ HandleCustomEvent(p)
          \/ RtcConnectionEstablished(p)
          \/ SendChatMessage(p)
          \/ PostEncryptTask(p)
          \/ AddChatMessage(p)
          \/ DecryptReceivedMessage(p)
          \/ PostDecryptTask(p)
          \/ DecryptMessage(p)
          \/ SendEncryptedChatMessage(p)
          \/ worker_main(p)
          \/ WorkerResponse(p)
    \/ \E c \in 1..MaxConns :
          \/ IceCompletes(c)
          \/ IceConnectionStateChange(c)
          \/ ChannelMessage(c)

SpecApp == InitApp /\ [][NextApp]_vars

(***************************************************************************)
(* Sessions after a session: the run starts in the same state of Spec, and *)
(* the users start and accept further sessions.                            *)
(***************************************************************************)
RestartStart ==
    /\ app = [p \in Peers |-> EstablishedApp(p)]
    /\ conns = EstablishedConns
    /\ pending = [p \in Peers |-> <<>>]
    /\ worker_in = [p \in Peers |-> <<>>]
    /\ worker_out = [p \in Peers |-> <<>>]
    /\ hist = [HistStart(MaxRestartActions) EXCEPT
                  !.conn_limit = MaxRestartConns,
                  !.delivered =
                      { [conn |-> ConnOf(p),
                         data |-> RtcMessageToString(
                                      PublicKey(PublicKeyOf(KeyOf(OtherPeer(p)))))]
                          : p \in Peers }]

InitRestart == CryptoIdle /\ QrIdle /\ RestartStart

NextRestart ==
    \/ \E p \in Peers :
          \/ ClickCreateOffer(p)
          \/ ClickBack(p)
          \/ \E q \in Peers : ScanQr(p, q)
          \/ ShowRtcDialog(p)
          \/ HideChatView(p)
          \/ ShowEncryptedQr(p)
          \/ HandleCustomEvent(p)
          \/ StartRtcConnection(p)
          \/ ProcessRtcSignal(p)
          \/ RtcConnectionEstablished(p)
          \/ SendPublicKeyViaRtc(p)
          \/ SendPublicKeyTask(p)
          \/ SetPeerPublicKey(p)
          \/ StartConnectionTask(p)
          \/ RecvOfferTask(p)
          \/ RecvAnswerTask(p)
    \/ \E c \in 1..MaxRestartConns :
          \/ CreateOfferResolved(c)
          \/ SetLocalDescriptionResolved(c)
          \/ IceGatheringComplete(c)
          \/ SetRemoteDescriptionResolved(c)
          \/ CreateAnswerResolved(c)
          \/ SetRemoteAnswerResolved(c)
          \/ IceConnectionStateChange(c)
          \/ ChannelOpen(c)
          \/ DataChannel(c)
          \/ ChannelMessage(c)
          \/ \E d \in 1..MaxRestartConns : Establish(c, d)

SpecRestart == InitRestart /\ [][NextRestart]_vars

(***************************************************************************)
(* Signals that are refused: the run starts as Spec does, the users make   *)
(* a session, read and paste signals, and the page dispatches events of    *)
(* type process_rtc_signal whose data is no signal.                        *)
(***************************************************************************)
InitReject == CryptoIdle /\ QrIdle /\ SessStartWith(MaxConns, MaxRejectActions)

NextReject ==
    \/ \E p \in Peers :
          \/ ClickCreateOffer(p)
          \/ \E q \in Peers : ScanQr(p, q)
          \/ PasteSignal(p)
          \/ DispatchRtcSignal(p)
          \/ ShowRtcDialog(p)
          \/ ShowDialog(p)
          \/ ShowEncryptedQr(p)
          \/ HandleCustomEvent(p)
          \/ StartRtcConnection(p)
          \/ ProcessRtcSignal(p)
          \/ RtcConnectionEstablished(p)
          \/ SendPublicKeyViaRtc(p)
          \/ SendPublicKeyTask(p)
          \/ SetPeerPublicKey(p)
          \/ StartConnectionTask(p)
          \/ RecvOfferTask(p)
          \/ RecvAnswerTask(p)
    \/ \E c \in 1..MaxConns :
          \/ CreateOfferResolved(c)
          \/ SetLocalDescriptionResolved(c)
          \/ IceGatheringComplete(c)
          \/ SetRemoteDescriptionResolved(c)
          \/ CreateAnswerResolved(c)
          \/ SetRemoteAnswerResolved(c)
          \/ IceConnectionStateChange(c)
          \/ ChannelOpen(c)
          \/ DataChannel(c)
          \/ ChannelMessage(c)
          \/ \E d \in 1..MaxConns : Establish(c, d)

SpecReject == InitReject /\ [][NextReject]_vars

(***************************************************************************)
(* Sessions after a session, with the "Send My Public Key" button: the run *)
(* starts in the state of Spec in which the session is established and     *)
(* both users went back to the main view.                                  *)
(***************************************************************************)
HandlerStart ==
    /\ app = [p \in Peers |-> [EstablishedApp(p) EXCEPT !.chat_visible = FALSE]]
    /\ conns = EstablishedConns
    /\ pending = [p \in Peers |-> <<>>]
    /\ worker_in = [p \in Peers |-> <<>>]
    /\ worker_out = [p \in Peers |-> <<>>]
    /\ hist = [HistStart(MaxHandlerActions) EXCEPT
                  !.conn_limit = MaxHandlerConns]

InitHandler == CryptoIdle /\ QrIdle /\ HandlerStart

NextHandler ==
    \/ NextRestart
    \/ \E p \in Peers :
          \/ ClickSendMyPublicKey(p)
          \/ ShowDialog(p)

SpecHandler == InitHandler /\ [][NextHandler]_vars

(***************************************************************************)
(* What arrives on the channel of an established session: the run starts   *)
(* in the same state of Spec, and the other end puts strings of its choice *)
(* on the channel, envelopes and others.                                   *)
(***************************************************************************)
\* what the other end may send to p: the empty string, "abc", a signal,
\* an object tagged publicKey that has the field of EncryptedData, a
\* PublicKey envelope, and EncryptedData envelopes of "abc" and of a
\* message encrypted for p
InboundData(p) ==
    { <<>>, ShortKey, LocalSignalOf(OfferTag, 1),
      JsonTagged(TypeName, PublicKeyTag, EncryptedDataField, ShortKey),
      RtcMessageToString(PublicKey(PublicKeyOf(1))),
      RtcMessageToString(EncryptedData(ShortKey)),
      RtcMessageToString(EncryptedData(
          encrypt_message(PublicKeyOf(KeyOf(p)), Hello, 1).val)) }

\* the other end of an open channel sends one more string
PeerSendsData(c) ==
    /\ c \in DOMAIN conns
    /\ Settled
    /\ hist.injected < MaxInbound
    /\ conns[c].channel = "open"
    /\ \E data \in InboundData(conns[c].owner) :
          conns' = [conns EXCEPT ![c].events = Append(@, Event("message", data))]
    /\ hist' = [hist EXCEPT !.injected = @ + 1]
    /\ UNCHANGED << app, pending, worker_in, worker_out, otherVars >>

InitInbound == InitApp

NextInbound ==
    \/ \E p \in Peers :
          \/ SetPeerPublicKey(p)
          \/ DecryptReceivedMessage(p)
          \/ PostDecryptTask(p)
          \/ worker_main(p)
          \/ WorkerResponse(p)
          \/ HandleCustomEvent(p)
          \/ AddChatMessage(p)
          \/ ShowDialog(p)
    \/ \E c \in 1..MaxConns :
          \/ PeerSendsData(c)
          \/ ChannelMessage(c)

SpecInbound == InitInbound /\ [][NextInbound]_vars

(***************************************************************************)
(* The contacts of an installation that has no session.  Its contact is   *)
(* what an earlier run stored.                                             *)
(***************************************************************************)
ContactsStart ==
    /\ app = [p \in Peers |->
                 [InitialAppState(p) EXCEPT
                     !.contacts = IF p \in AppUsers THEN StoredContacts
                                  ELSE << >>]]
    /\ conns = <<>>
    /\ pending = [p \in Peers |-> <<>>]
    /\ worker_in = [p \in Peers |-> <<>>]
    /\ worker_out = [p \in Peers |-> <<>>]
    /\ hist = HistStart(MaxContactActions)

InitContacts == CryptoIdle /\ QrIdle /\ ContactsStart

NextContacts ==
    \E p \in AppUsers :
       \/ ScanKey(p)
       \/ ClickAddContact(p)
       \/ ClickDeleteContact(p)
       \/ ClickConfirmDelete(p)
       \/ HandleCustomEvent(p)
       \/ ShowAddContactDialog(p)
       \/ HideAddContactDialog(p)
       \/ ConfirmAddContact(p)
       \/ ShowDeleteConfirm(p)
       \/ ConfirmDeleteContact(p)

SpecContacts == InitContacts /\ [][NextContacts]_vars

(***************************************************************************)
(* The start of the two installations: App::create has sent LoadMyKeys.    *)
(***************************************************************************)
LoadStart ==
    /\ app = [p \in Peers |-> DefaultAppState(p)]
    /\ conns = <<>>
    /\ pending = [p \in Peers |-> << Msg("LoadMyKeys", "", <<>>) >>]
    /\ worker_in = [p \in Peers |-> <<>>]
    /\ worker_out = [p \in Peers |-> <<>>]
    /\ hist = [HistStart(MaxLoadActions) EXCEPT
                  !.worker = [p \in Peers |->
                                 [ready |-> 0, early |-> FALSE,
                                  silent |-> FALSE]]]

InitLoad == CryptoIdle /\ QrIdle /\ LoadStart

\* what p's installation and its worker do until the main view is shown
LoadStep(p) ==
    \/ LoadMyKeys(p)
    \/ worker_start(p)
    \/ LoadKeysTask(p)
    \/ GenerateKeys(p)
    \/ PostGenerateTask(p)
    \/ SaveKeysTask(p)
    \/ UpdateLoadingProgress(p)
    \/ SetLoading(p)
    \/ KeysLoaded(p)
    \/ DrawQrCode(p)
    \/ worker_main(p)
    \/ WorkerResponse(p)

NextLoad == \E p \in Peers : LoadStep(p)

SpecLoad == InitLoad /\ [][NextLoad]_vars

\* the browser runs every queued task, and so does the worker
FairSpecLoad == SpecLoad /\ \A p \in Peers : WF_vars(LoadStep(p))

(***************************************************************************)
(* The worker, from its start: once the main view is shown the user scans  *)
(* encrypted texts, and ProcessQrData requests are posted to the worker.   *)
(***************************************************************************)
NextWorker ==
    \E p \in Peers :
       \/ LoadStep(p)
       \/ MainViewShown(p) /\ ScanBlob(p)
       \/ MainViewShown(p) /\ PostProcessQrData(p)
       \/ HandleCustomEvent(p)
       \/ DecryptMessage(p)
       \/ ShowDialog(p)
       \/ ShowAddContactDialog(p)
       \/ ShowPrivateKeyImportConfirm(p)

SpecWorker == InitLoad /\ [][NextWorker]_vars

(***************************************************************************)
(* Properties of the session                                               *)
(***************************************************************************)
\* c is the session its owner holds in rtc_connection
Current(c) == app[conns[c].owner].rtc_connection = << c >>

\* the channel of c has been open
ReachedOpen(c) == conns[c].channel \in {"open", "closed"}

\* the PublicKey envelope the owner of d sends
PublicKeyEnvelope(d) ==
    RtcMessageToString(PublicKey(app[conns[d].owner].my_keys.public_key))

\* the owner's queue is empty and c has received the PublicKey envelope of
\* d, the other end
KeyDelivered(c, d) ==
    /\ pending[conns[c].owner] = <<>>
    /\ [conn |-> c, data |-> PublicKeyEnvelope(d)] \in hist.delivered

\* c and d are the sessions the two sides hold, wired to each other, and
\* both channels have been open
HandshakePair(c, d) ==
    /\ Wired(c, d)
    /\ Current(c) /\ Current(d)
    /\ ReachedOpen(c) /\ ReachedOpen(d)

\* C1: for the two sessions the sides hold, wired to each other, with both
\* channels opened: once the PublicKey envelope of the other side has been
\* delivered and the work it queued is done, rtc_peer_public_key is the
\* other side's own public key - in whatever order the channel-open events,
\* the handler registrations and the deliveries happened.
HandshakeSymmetry ==
    \A c \in DOMAIN conns : \A d \in DOMAIN conns :
        (HandshakePair(c, d) /\ KeyDelivered(c, d))
            => app[conns[c].owner].rtc_peer_public_key
                   = << app[conns[d].owner].my_keys.public_key >>

\* both sides have received the other's envelope and hold the other's key
HandshakeSymmetryWitness ==
    \E c \in DOMAIN conns : \E d \in DOMAIN conns :
        /\ conns[c].is_initiator
        /\ HandshakePair(c, d)
        /\ KeyDelivered(c, d) /\ KeyDelivered(d, c)
        /\ Cardinality(hist.delivered) = 2
        /\ app[conns[c].owner].rtc_peer_public_key
               = << app[conns[d].owner].my_keys.public_key >>
        /\ app[conns[d].owner].rtc_peer_public_key
               = << app[conns[c].owner].my_keys.public_key >>

\* nothing is queued, in flight or waiting for its task
Quiescent ==
    /\ Settled
    /\ \A p \in Peers : worker_out[p] = <<>>
    /\ \A c \in DOMAIN conns : conns[c].events = <<>>

\* p is the initiator of the session it holds
Initiator(p) ==
    /\ app[p].rtc_connection # <<>>
    /\ conns[app[p].rtc_connection[1]].is_initiator

\* the one p is in session with
PeerOf(p) == CHOOSE q \in Peers : q # p

\* the chat history of p has text as a received message
Received(p, text) ==
    \E i \in DOMAIN app[p].chat_messages :
        app[p].chat_messages[i] = [content |-> text, is_sent |-> FALSE]

\* C2: a chat message the initiator sent after the handshake (both sides
\* connected, channels open, PublicKey envelopes exchanged) is, once
\* nothing is left to run and the session is still up, in the responder's
\* chat history as a received message with that content.
EndToEnd ==
    \A m \in hist.chats :
        (/\ m.exchanged
         /\ Initiator(m.peer)
         /\ Exchanged(m.peer)
         /\ Quiescent)
            => Received(PeerOf(m.peer), m.text)

\* the responder's chat history has "hello" as received from the initiator
EndToEndWitness ==
    \E m \in hist.chats :
        /\ m.exchanged
        /\ m.text = Hello
        /\ Initiator(m.peer)
        /\ Received(PeerOf(m.peer), Hello)

\* C3: every call of send_message made without a channel handle, or with a
\* channel that is not open, returned Err and handed nothing to the
\* channel; every call that returned Ok handed its envelope to a channel
\* that was open.
SendNeverSilent ==
    \A call \in hist.sends :
        /\ call.state # "open" => (call.result = "Err" /\ ~call.handed)
        /\ call.result = "Ok" => (call.handed /\ call.state = "open")

\* a call without a channel handle has failed, a call on a channel that
\* was not open has failed, and a call on an open channel has succeeded
SendNeverSilentWitness ==
    /\ \E call \in hist.sends :
          call.state = "none" /\ call.result = "Err" /\ ~call.handed
    /\ \E call \in hist.sends :
          call.state \in {"connecting", "closed"} /\ call.result = "Err"
    /\ \E call \in hist.sends :
          call.state = "open" /\ call.result = "Ok" /\ call.handed

\* C4: every call of send_message that failed had its caller send
\* Msg::ShowDialog, for a PublicKey envelope and for an EncryptedData
\* envelope alike.
SendFailureSurfaced ==
    \A call \in hist.sends : call.result = "Err" => call.surfaced

\* a PublicKey envelope that could not be sent has put up the dialog
PublicKeyFailureSurfaced ==
    \E call \in hist.sends :
        /\ call.type = "publicKey"
        /\ call.result = "Err"
        /\ call.surfaced
        /\ app[conns[call.conn].owner].dialog_message # <<>>

\* the signal made of the local description of c is on its way to the
\* screen of its owner, or on it
Surfaced(c) ==
    \/ app[conns[c].owner].encrypted_qr_data = << LocalSignal(c) >>
    \/ \E i \in DOMAIN pending[conns[c].owner] :
          /\ pending[conns[c].owner][i].msg = "ShowEncryptedQr"
          /\ pending[conns[c].owner][i].data = LocalSignal(c)

\* C12: on both roles the signal made of the local description (the Offer
\* of start_connection, the Answer of recv_offer) is not surfaced while
\* ICE gathering has not completed: it is surfaced only after the
\* end-of-candidates event that follows set_local_description.
DescriptorAfterGathering ==
    \A c \in DOMAIN conns :
        (~conns[c].gathered \/ conns[c].local = "none") => ~Surfaced(c)

\* an Offer and the Answer to it are on their owners' screens
DescriptorAfterGatheringWitness ==
    \E c \in DOMAIN conns : \E d \in DOMAIN conns :
        /\ conns[c].is_initiator /\ ~conns[d].is_initiator
        /\ conns[d].remote = c
        /\ conns[c].local = "offer" /\ conns[d].local = "answer"
        /\ app[conns[c].owner].encrypted_qr_data = << LocalSignal(c) >>
        /\ app[conns[d].owner].encrypted_qr_data = << LocalSignal(d) >>

\* recv_offer has run on c up to its first await, or to its return
Responding(c) == ~conns[c].is_initiator /\ conns[c].pos # "new"

\* the ICE agent of c has connected (a connection that failed before it
\* connected is announced no channel)
HasConnected(c) == conns[c].ice \in {"connected", "completed", "disconnected"}

\* the browser has announced the channel to c and the event waits
Announced(c) ==
    \E i \in DOMAIN conns[c].events : conns[c].events[i].type = "datachannel"

\* C13: the responder has its datachannel handler registered from the
\* moment recv_offer sets the remote description, so every announcement
\* of the channel finds it: once the announcement is handled the session
\* has the channel handle, and no announcement is lost.
ChannelCaptured ==
    \A c \in DOMAIN conns :
        /\ Responding(c) => conns[c].ondatachannel
        /\ Announced(c) => conns[c].ondatachannel
        /\ (Responding(c) /\ HasConnected(c) /\ ~Announced(c))
              => conns[c].channel \in {"open", "closed"}

\* a responder has taken the announced channel, which is open
ChannelCapturedWitness ==
    \E c \in DOMAIN conns :
        /\ Responding(c)
        /\ conns[c].ice # "new"
        /\ ~Announced(c)
        /\ conns[c].ondatachannel
        /\ conns[c].channel = "open"

\* how many messages msg the queue holds
CountMsg(queue, msg) ==
    Cardinality({ i \in DOMAIN queue : queue[i].msg = msg })

\* this step queues one more message msg for p
NewlyQueued(p, msg) == CountMsg(pending'[p], msg) > CountMsg(pending[p], msg)

\* this step is the handler of an event of this type of a connection of p
EventHandled(p, type) ==
    \E c \in DOMAIN conns :
        /\ conns[c].owner = p
        /\ conns[c].events # <<>>
        /\ Head(conns[c].events).type = type
        /\ conns'[c].events = Tail(conns[c].events)

\* rtc_connected and chat_visible become true in
\* Msg::RtcConnectionEstablished only, which only the ICE state handler
\* sends, on Connected or Completed; Msg::SendPublicKeyViaRtc is sent by
\* the handler of the channel's open only, unless the user pressed the
\* button
ConnectedAndOpenStep ==
    \A p \in Peers :
        /\ (~app[p].rtc_connected /\ app'[p].rtc_connected)
              => Handles(p, "RtcConnectionEstablished")
        /\ (~app[p].chat_visible /\ app'[p].chat_visible)
              => Handles(p, "RtcConnectionEstablished")
        /\ NewlyQueued(p, "RtcConnectionEstablished")
              => /\ EventHandled(p, "iceconnectionstatechange")
                 /\ ~NewlyQueued(p, "SendPublicKeyViaRtc")
        /\ NewlyQueued(p, "SendPublicKeyViaRtc")
              => \/ EventHandled(p, "open")
                 \/ EventHandled(p, "datachannel")
                 \/ hist'.user_actions > hist.user_actions

\* C15: Connected and ChannelOpen are separate signals: the connection
\* flag and the chat view change on the ICE Connected/Completed event
\* only, and the automatic PublicKey send is started by the channel's
\* open event only, never by the ICE event.
ConnectedAndOpenIndependent == [][ConnectedAndOpenStep]_vars

\* a side is connected and shows the chat while its channel has not
\* opened and nothing has been sent on it
ConnectedAndOpenIndependentWitness ==
    \E c \in DOMAIN conns :
        /\ Current(c)
        /\ app[conns[c].owner].rtc_connected
        /\ app[conns[c].owner].chat_visible
        /\ conns[c].channel \in {"none", "connecting"}
        /\ \A call \in hist.sends : call.conn # c

\* the Encrypt requests p has issued and the worker has not taken
EncryptRequests(p) ==
    { i \in DOMAIN worker_in[p] : worker_in[p][i].type = "Encrypt" }

\* the tasks of p that will post an Encrypt request
EncryptTasks(p) ==
    { i \in DOMAIN pending[p] : pending[p][i].msg = "post_encrypt" }

\* every Encrypt request of the chat, posted or about to be, is for the
\* peer key p holds
EncryptsToPeerKey ==
    \A p \in Peers :
        /\ \A i \in EncryptRequests(p) :
              << worker_in[p][i].key >> = app[p].rtc_peer_public_key
        /\ \A i \in EncryptTasks(p) :
              << pending[p][i].key >> = app[p].rtc_peer_public_key

\* Msg::SendChatMessage, handled with a session and without a peer key,
\* only tells the user; the task that posts the request and adds the
\* message to the chat is queued by Msg::SendChatMessage with a peer key
\* only
RequiresPeerKeyStep ==
    \A p \in Peers :
        /\ (/\ Handles(p, "SendChatMessage")
            /\ pending'[p] # pending[p]
            /\ app[p].rtc_connection # <<>>
            /\ app[p].rtc_peer_public_key = <<>>)
              => /\ pending'[p] = Tail(pending[p]) \o
                       << Msg("ShowDialog", "Peer public key not available", <<>>) >>
                 /\ worker_in' = worker_in
                 /\ app' = app
        /\ NewlyQueued(p, "post_encrypt")
              => /\ Handles(p, "SendChatMessage")
                 /\ app[p].rtc_connection # <<>>
                 /\ app[p].rtc_peer_public_key # <<>>
        /\ Len(worker_in'[p]) > Len(worker_in[p])
              => \/ Handles(p, "post_encrypt")
                 \/ worker_in'[p][Len(worker_in'[p])].type # "Encrypt"
        /\ (NewlyQueued(p, "AddChatMessage") /\ ~Handles(p, "post_encrypt"))
              => pending'[p][Len(pending'[p])].tag # "sent"

\* C18: SendChatMessage issues an Encrypt request only when the peer key
\* is present, and for exactly that key; with a session and no peer key
\* it issues no request, adds nothing to the chat history and tells the
\* user that the peer key is not available.
RequiresPeerKey == []EncryptsToPeerKey /\ [][RequiresPeerKeyStep]_vars

\* a message was sent in a session that had no peer key yet: the dialog
\* says so and the chat history is empty
RequiresPeerKeyWitness ==
    \E p \in Peers :
        /\ \E m \in hist.chats : m.peer = p /\ ~m.exchanged
        /\ pending[p] = <<>>
        /\ app[p].rtc_connection # <<>>
        /\ app[p].dialog_message =
              << [text |-> "Peer public key not available", data |-> <<>>] >>
        /\ app[p].chat_messages = <<>>

\* this step is the ICE state handler of c finding the state Disconnected
DisconnectedHandled(c) ==
    /\ conns[c].events # <<>>
    /\ Head(conns[c].events).type = "iceconnectionstatechange"
    /\ conns[c].ice = "disconnected"
    /\ conns'[c].events = Tail(conns[c].events)

\* C20: the handler of a Disconnected ICE event changes nothing:
\* rtc_connection, rtc_connected, rtc_peer_public_key, the chat history
\* and the rest of AppState, the channel handle and its state, and the
\* queue of messages are as they were.
DisconnectedLeavesState ==
    [][\A c \in DOMAIN conns :
          DisconnectedHandled(c)
              => /\ app' = app
                 /\ pending' = pending
                 /\ conns' = [conns EXCEPT ![c].events = Tail(@)]
                 /\ worker_in' = worker_in
                 /\ worker_out' = worker_out]_vars

\* a side that was connected, has the peer's key and a chat history has
\* handled the Disconnected event
DisconnectedLeavesStateWitness ==
    \E c \in DOMAIN conns :
        /\ Current(c)
        /\ conns[c].ice = "disconnected"
        /\ conns[c].events = <<>>
        /\ pending[conns[c].owner] = <<>>
        /\ conns[c].channel = "open"
        /\ app[conns[c].owner].rtc_connected
        /\ app[conns[c].owner].rtc_peer_public_key # <<>>
        /\ app[conns[c].owner].chat_messages # <<>>


(***************************************************************************)
(* Sessions that are replaced                                              *)
(***************************************************************************)
\* the session p holds has taken no part in anything yet: its ICE state is
\* new and nothing has arrived on its channel
Untouched(p, c) ==
    /\ app[p].rtc_connection = << c >>
    /\ conns[c].ice = "new"
    /\ \A r \in hist.delivered : r.conn # c

\* C19: starting a new session discards the previous one: no event of the
\* previous session changes rtc_connected, rtc_peer_public_key or the chat
\* state, so while the session an installation holds has not connected and
\* has received nothing, it is not connected, shows no chat and has no peer
\* key.
PreviousSessionDiscarded ==
    \A p \in Peers : \A c \in DOMAIN conns :
        Untouched(p, c) =>
            /\ ~app[p].rtc_connected
            /\ ~app[p].chat_visible
            /\ app[p].rtc_peer_public_key = <<>>

(***************************************************************************)
(* The key exchange a channel's opening starts                             *)
(***************************************************************************)
\* the PublicKey envelope of c's owner was handed to the channel of c
KeySentOn(c) ==
    \E call \in hist.sends :
        /\ call.conn = c
        /\ call.type = "publicKey"
        /\ call.result = "Ok"
        /\ call.envelope = << PublicKeyEnvelope(c) >>

\* C16: when its channel has opened, on either role, the side sends a
\* PublicKey envelope with its own public key over that channel, and no
\* user action is needed between the opening and the send: once the work
\* the open event queued is done, the envelope has been handed to the
\* channel that opened.
KeySentOnOpen ==
    \A c \in DOMAIN conns :
        (ReachedOpen(c) /\ pending[conns[c].owner] = <<>>) => KeySentOn(c)

\* both roles have opened their channel and sent their key over it
KeySentOnOpenWitness ==
    \E c \in DOMAIN conns : \E d \in DOMAIN conns :
        /\ conns[c].is_initiator /\ ~conns[d].is_initiator
        /\ Wired(c, d)
        /\ ReachedOpen(c) /\ ReachedOpen(d)
        /\ Settled
        /\ KeySentOn(c) /\ KeySentOn(d)

(***************************************************************************)
(* The peer key that is stored                                             *)
(***************************************************************************)
\* C17: receiving a PublicKey envelope sets the peer public key to its key,
\* a later envelope overwrites an earlier one and none is rejected: once
\* the work an envelope queued is done, the stored key is the key of the
\* envelope the installation received last.
LatestKeyStored ==
    \A p \in Peers :
        (pending[p] = <<>> /\ hist.last_key[p] # <<>>)
            => app[p].rtc_peer_public_key = hist.last_key[p]

\* an installation has received the key of the other one and then a key of
\* three characters, and stores the latter
LatestKeyStoredWitness ==
    \E c \in DOMAIN conns :
        /\ conns[c].remote # 0
        /\ [conn |-> c, data |-> PublicKeyEnvelope(conns[c].remote)]
               \in hist.delivered
        /\ pending[conns[c].owner] = <<>>
        /\ hist.last_key[conns[c].owner] = << ShortKey >>
        /\ app[conns[c].owner].rtc_peer_public_key = << ShortKey >>

(***************************************************************************)
(* Answers that are rejected                                               *)
(***************************************************************************)
\* recv_answer returns Err on c in this step
RejectedNow(c) == c \in hist'.rejected /\ c \notin hist.rejected

\* the step tells the user of c's owner something
Shown(c) ==
    \/ \E i \in DOMAIN pending'[conns[c].owner] :
           pending'[conns[c].owner][i].msg = "ShowDialog"
    \/ conns[c].owner \in hist'.alerts /\ conns[c].owner \notin hist.alerts

\* the session of c has connected or its channel has opened
Proceeded(c) == conns[c].ice # "new" \/ ReachedOpen(c)

NeverProceeds == \A c \in hist.rejected : ~Proceeded(c)

RejectionShownStep ==
    \A c \in DOMAIN conns : RejectedNow(c) => Shown(c)

\* C14: an Answer that is invalid or that matches no outstanding offer is
\* rejected, the rejection is shown to the user, and the session it was
\* given to never goes on to Connected or ChannelOpen.
RejectedAnswerFails == []NeverProceeds /\ [][RejectionShownStep]_vars

\* an Answer was rejected on a session that is connected now, and nothing
\* has been shown to its owner
RejectedAnswerProceeds ==
    \E c \in hist.rejected :
        /\ Proceeded(c)
        /\ app[conns[c].owner].rtc_connected
        /\ app[conns[c].owner].dialog_message = <<>>

(***************************************************************************)
(* Keys that cannot be shown                                               *)
(***************************************************************************)
\* C24: no inbound PublicKey envelope can crash the process: whatever key
\* string the peer sends, of any length and content, it is stored as
\* rtc_peer_public_key and the chat view and the RTC dialog are rendered
\* without panic.
NoKeyCrashes == \A p \in Peers : ~Crashed(p)

\* an installation shows the chat, has stored a key of three characters
\* that arrived in a PublicKey envelope, and its render has panicked
KeyCrashes ==
    \E p \in Peers :
        /\ app[p].chat_visible
        /\ app[p].rtc_peer_public_key = << ShortKey >>
        /\ hist.last_key[p] = << ShortKey >>
        /\ Crashed(p)

(***************************************************************************)
(* ICE failure                                                             *)
(***************************************************************************)
\* this step is the ICE state handler of c finding the state Failed
FailedHandled(c) ==
    /\ conns[c].events # <<>>
    /\ Head(conns[c].events).type = "iceconnectionstatechange"
    /\ conns[c].ice = "failed"
    /\ conns'[c].events = Tail(conns[c].events)

FailedIsTerminalStep ==
    \A c \in DOMAIN conns :
        conns[c].ice = "failed"
            => /\ conns'[c].ice = "failed"
               /\ conns'[c].local = conns[c].local
               /\ conns'[c].remote = conns[c].remote
               /\ conns'[c].pos = conns[c].pos
               /\ FailedHandled(c) => (app' = app /\ pending' = pending)

\* C21: ICE failure is terminal for the session: once the ICE state of a
\* session is Failed it stays Failed, the session makes no new descriptor
\* and restarts nothing, its handler reports no connection and changes
\* nothing (it does not crash either); only another session can connect.
FailedIsTerminal == [][FailedIsTerminalStep]_vars

\* the handler has found the state Failed on a session that had the
\* other end's description, and the installation is not connected
FailedIsTerminalWitness ==
    \E c \in DOMAIN conns :
        /\ conns[c].ice = "failed"
        /\ conns[c].remote # 0
        /\ conns[c].events = <<>>
        /\ pending[conns[c].owner] = <<>>
        /\ ~app[conns[c].owner].rtc_connected
(***************************************************************************)
(* Properties of SpecContacts                                              *)
(***************************************************************************)
\* p's queue has run the message msg that was at its head
Handled(p, msg) == Handles(p, msg) /\ pending'[p] # pending[p]

\* the contacts other than name are as they were
OthersKept(p, name) ==
    \A n \in DOMAIN app[p].contacts \ { name } :
       /\ n \in DOMAIN app'[p].contacts
       /\ app'[p].contacts[n] = app[p].contacts[n]

ContactStep ==
    \A p \in Peers :
       LET name == Head(pending[p]).data
       IN  /\ ( /\ Handled(p, "ConfirmAddContact")
                /\ app[p].public_key_to_add # <<>>
                /\ ~trim_is_empty(name) )
              => /\ DOMAIN app'[p].contacts = DOMAIN app[p].contacts \cup { name }
                 /\ app'[p].contacts[name] = app[p].public_key_to_add[1]
                 /\ OthersKept(p, name)
           /\ Handled(p, "ConfirmDeleteContact")
              => /\ DOMAIN app'[p].contacts = DOMAIN app[p].contacts \ { name }
                 /\ OthersKept(p, name)

\* the contacts are a map from names to the keys that were stored or read
ContactsAreMap ==
    \A p \in Peers :
       \A n \in DOMAIN app[p].contacts :
          app[p].contacts[n] \in ScannedKeys

\* C28: ConfirmAddContact(name) with a pending key and a non-blank name
\* sets contacts[name] to that key, replacing the key stored under the name
\* and leaving every other contact as it was; ConfirmDeleteContact(name)
\* removes exactly that name; each name maps to at most one key
ContactsKeyedByName == []ContactsAreMap /\ [][ContactStep]_vars

\* the stored key of bob has been replaced by another, by the first
\* contact the user added
ContactsKeyedByNameWitness ==
    \E p \in AppUsers :
       /\ hist.user_actions = 2
       /\ pending[p] = <<>>
       /\ DOMAIN app[p].contacts = { NameBob }
       /\ app[p].contacts[NameBob] # StoredContacts[NameBob]

(***************************************************************************)
(* Properties of SpecApp                                                   *)
(***************************************************************************)
\* the requests that are a MainMessage
RequestTypes ==
    { "Encrypt", "Decrypt", "ExportPrivateKey", "GeneratePublicKeyFromPrivate" }

\* p's worker has taken the request at the head of its queue
Answered(p) == worker_in[p] # <<>> /\ worker_in'[p] = Tail(worker_in[p])

\* what it posted last
Response(p) == worker_out'[p][Len(worker_out'[p])]

UnreadRequestStep ==
    \A p \in Peers :
       Answered(p) =>
          /\ worker_out'[p] = Append(worker_out[p], Response(p))
          /\ UNCHANGED << app, conns, pending >>
          /\ IF Head(worker_in[p]).type \in RequestTypes
             THEN \E nonce \in 0..MaxSessionNonce :
                     Response(p) = worker_response(Head(worker_in[p]), nonce)
             ELSE Response(p) = WorkerMessage("Error", <<>>)

\* C25: a request the worker cannot deserialize produces exactly one Error
\* response and no other effect, and every request it is sent, before or
\* after, is answered as a worker that was sent no such request answers it
UnreadRequestIsError == [][UnreadRequestStep]_vars

\* the worker answered what it could not read with an Error and then the
\* Decrypt request of the one text the user has scanned with its plaintext
UnreadRequestIsErrorWitness ==
    \E p \in AppUsers :
       /\ hist.malformed = 1
       /\ hist.user_actions = 2
       /\ worker_in[p] = <<>>
       /\ worker_out[p] = << WorkerMessage("Error", <<>>),
                             WorkerMessage("Decrypted", Note) >>

\* the request is a Decrypt of what its key does not open
CannotOpen(request) ==
    /\ request.type = "Decrypt"
    /\ decrypt_message(request.key, request.data).tag = "OkNone"

CannotOpenStep ==
    \A p \in Peers :
       Answered(p) /\ CannotOpen(Head(worker_in[p]))
          => /\ Response(p).type # "Error"
             /\ UNCHANGED << app, conns >>

\* C26: when decrypt_message yields None for a Decrypt request, the
\* outcome is not surfaced as an error, and keys, contacts, session and
\* chat state are unchanged
CannotOpenIsNeutral == [][CannotOpenStep]_vars

\* the user has scanned a text encrypted for somebody else, and nothing
\* else was done: the page has shown the alert of an error, with its state
\* as it was
CannotOpenIsError ==
    \E p \in AppUsers :
       /\ hist.user_actions = 1 /\ hist.malformed = 0
       /\ hist.network_changes = 0
       /\ Settled /\ worker_out[p] = <<>>
       /\ p \in hist.alerts
       /\ app[p] = EstablishedApp(p)

\* the text s holds the text t
Contains(s, t) == \E i \in 1..(Len(s) - Len(t) + 1) : HasAt(s, i, t)

\* the private key a request carries, if it carries one
RequestPrivateKey(request) ==
    IF request.type \in { "Decrypt", "GeneratePublicKeyFromPrivate" }
    THEN { request.key }
    ELSE IF request.type = "ExportPrivateKey" THEN { request.data }
    ELSE {}

\* the response holds a private key in cleartext
CarriesPrivateKey(response) ==
    \E k \in Keys : Contains(response.data, PrivateKeyOf(k))

\* the answer to an ExportPrivateKey is an Error, or the request's private
\* key encrypted to the recipient: the recipient's key opens it
ExportedEncrypted(request, response) ==
    \/ response.type = "Error"
    \/ /\ response.type = "PrivateKeyExported"
       /\ \E k \in Keys :
             /\ request.key = PublicKeyOf(k)
             /\ decrypt_message(PrivateKeyOf(k), response.data)
                   = [tag |-> "OkSome", val |-> request.data]

PrivateKeyStaysStep ==
    \A p \in Peers :
       LET request == Head(worker_in[p])
       IN  Answered(p) /\ request.type \in RequestTypes
              => /\ \A key \in RequestPrivateKey(request) :
                       ~Contains(Response(p).data, key)
                 /\ ~CarriesPrivateKey(Response(p))
                 /\ request.type = "ExportPrivateKey"
                       => ExportedEncrypted(request, Response(p))

\* C27 as claimed: no response to an Encrypt, Decrypt, ExportPrivateKey or
\* GeneratePublicKeyFromPrivate request holds the request's private key,
\* or any private key, in cleartext
PrivateKeyStaysInWorker == [][PrivateKeyStaysStep]_vars

PrivateKeyExportStep ==
    \A p \in Peers :
       LET request == Head(worker_in[p])
       IN  Answered(p) /\ request.type \in RequestTypes
              => /\ request.type # "Decrypt"
                       => /\ \A key \in RequestPrivateKey(request) :
                                ~Contains(Response(p).data, key)
                          /\ ~CarriesPrivateKey(Response(p))
                 /\ request.type = "Decrypt" /\ CarriesPrivateKey(Response(p))
                       => /\ Response(p).type = "Decrypted"
                          /\ decrypt_message(request.key, request.data)
                                = [tag |-> "OkSome", val |-> Response(p).data]
                 /\ request.type = "ExportPrivateKey"
                       => ExportedEncrypted(request, Response(p))

\* C27: no response to an Encrypt, ExportPrivateKey or
\* GeneratePublicKeyFromPrivate request, and no Error, holds a private key
\* in cleartext; ExportPrivateKey answers only with the private key
\* encrypted to the recipient; a Decrypted response holds a private key
\* only as the plaintext of the request's ciphertext
PrivateKeyExportedEncrypted == [][PrivateKeyExportStep]_vars

\* the worker has answered an export with the encrypted key, and the
\* Decrypt of an exported key with the key in cleartext
PrivateKeyExportedEncryptedWitness ==
    \E p \in AppUsers :
       /\ Len(worker_out[p]) = 2
       /\ worker_out[p][1].type = "PrivateKeyExported"
       /\ ~CarriesPrivateKey(worker_out[p][1])
       /\ worker_out[p][2] = WorkerMessage("Decrypted", PrivateKeyOf(NumKeys))

\* the response that answers a request of a kind
AnswerType(kind) ==
    CASE kind = "Encrypt" -> "Encrypted"
      [] kind = "Decrypt" -> "Decrypted"
      [] kind = "ExportPrivateKey" -> "PrivateKeyExported"
      [] kind = "GeneratePublicKeyFromPrivate" -> "PublicKeyGenerated"

\* the requests of a kind that p has posted and has no answer to: those
\* the worker has not taken, and those whose answer the page has not been
\* given (an Error names no request and is not counted)
Outstanding(p, kind) ==
    Cardinality({ i \in DOMAIN worker_in[p] : worker_in[p][i].type = kind })
    + Cardinality({ i \in DOMAIN worker_out[p] :
                      worker_out[p][i].type = AnswerType(kind) })

\* C22: at most one Encrypt, one Decrypt and one
\* GeneratePublicKeyFromPrivate request is outstanding (GenerateKeyPair is
\* posted once, before the keys are loaded)
RequestsSerialized ==
    \A p \in Peers :
       \A kind \in { "Encrypt", "Decrypt", "GeneratePublicKeyFromPrivate" } :
          Outstanding(p, kind) <= 1

\* two Decrypt requests are outstanding
RequestsOverlap ==
    \E p \in AppUsers : Outstanding(p, "Decrypt") = 2

ImportConfirmedStep ==
    \A p \in Peers :
       Handled(p, "ImportPrivateKeyWithPublicKey")
       /\ app'[p].my_keys # app[p].my_keys
          => Head(pending[p]).key \in hist.confirmed[p]

\* C29: every ImportPrivateKeyWithPublicKey(key, _) that changes my_keys
\* is preceded by a ConfirmImportPrivateKey issued while
\* private_key_to_import was that key, with no CancelImportPrivateKey in
\* between
ImportConfirmed == [][ImportConfirmedStep]_vars

\* the private key of the installation is one whose import the user never
\* confirmed
ImportUnconfirmed ==
    \E p \in AppUsers :
       /\ app[p].my_keys.private_key # InitialAppState(p).my_keys.private_key
       /\ app[p].my_keys.private_key \notin hist.confirmed[p]

\* the ciphertext is the encryption of the text to a key of the run
Opens(ciphertext, text) ==
    \E k \in Keys :
       decrypt_message(PrivateKeyOf(k), ciphertext)
          = [tag |-> "OkSome", val |-> text]

\* the ciphertexts that were received over a data channel
ReceivedCiphertexts ==
    { RtcMessageFromStr(r.data).message.data :
         r \in { d \in hist.delivered :
                    /\ RtcMessageFromStr(d.data).ok
                    /\ RtcMessageFromStr(d.data).message.type = "encryptedData" } }

\* a ciphertext requested in the message dialog was sent over the channel
OneShotSentAsChat ==
    \E ciphertext \in ReceivedCiphertexts :
       \E text \in MessageTexts : Opens(ciphertext, text)

\* a ciphertext requested for a chat message is shown as a QR code
ChatShownAsQr ==
    \E p \in Peers :
       /\ app[p].encrypted_qr_data # <<>>
       /\ Opens(app[p].encrypted_qr_data[1], Hello)

\* the plaintext of a scanned text is in the chat as a received message
ScannedAddedToChat ==
    \E p \in Peers :
       \E i \in DOMAIN app[p].chat_messages :
          app[p].chat_messages[i] = [content |-> Note, is_sent |-> FALSE]

\* C30: ciphertext requested for a one-shot QR message is never sent over
\* the data channel, ciphertext requested for a chat message is never
\* shown as a QR, and plaintext decrypted from a scanned text is never
\* added to the chat as a message received from the peer
ResponsesReachTheirFlow ==
    ~OneShotSentAsChat /\ ~ChatShownAsQr /\ ~ScannedAddedToChat

\* a message typed into the message dialog was received over the data
\* channel
ResponseMisrouted == OneShotSentAsChat


(***************************************************************************)
(* The key pair of the installation                                        *)
(***************************************************************************)

\* the public key is the one generate_public_key_from_private derives
\* from the private key
Derived(keys) ==
    generate_public_key_from_private(keys.private_key) =
        [tag |-> "Ok", val |-> keys.public_key]

\* C31: in every reachable state my_keys.public_key is the public key
\* derived from my_keys.private_key, under any interleaving of received
\* private keys, ConfirmImportPrivateKey, CancelImportPrivateKey and
\* PublicKeyGenerated responses
KeypairConsistent ==
    \A p \in Peers : Derived(app[p].my_keys)

\* an import has stored a private key with the public key of another
KeypairMismatch ==
    \E p \in AppUsers :
       /\ app[p].my_keys.private_key \in { PrivateKeyOf(k) : k \in Keys }
       /\ app[p].my_keys.public_key \in { PublicKeyOf(k) : k \in Keys }
       /\ ~Derived(app[p].my_keys)


(***************************************************************************)
(* Loading                                                                 *)
(***************************************************************************)
\* the worker has posted Ready and p has not handled it yet
ReadyPosted(p) ==
    worker_out[p] # <<>> /\ Head(worker_out[p]).type = "Ready"

\* C32: after the worker posts Ready, is_loading eventually becomes false
\* on every path: keys found in storage, keys absent and generated, the
\* worker answering with Error, the request not posted
LoadingEnds ==
    \A p \in Peers : ReadyPosted(p) ~> ~app[p].is_loading

\* the worker answered GenerateKeyPair with Error, nothing is left to run
\* and the loading screen is still shown
LoadingStuck ==
    \E p \in Peers :
       /\ p \in hist.alerts
       /\ app[p].is_loading
       /\ pending[p] = <<>>
       /\ worker_in[p] = <<>>
       /\ worker_out[p] = <<>>


(***************************************************************************)
(* The worker's answers                                                    *)
(***************************************************************************)
\* the success shape of each kind of request
SuccessShape(kind) ==
    IF kind = "GenerateKeyPair" THEN "Generated"
    ELSE IF kind = "Encrypt" THEN "Encrypted"
    ELSE IF kind = "Decrypt" THEN "Decrypted"
    ELSE IF kind = "ExportPrivateKey" THEN "PrivateKeyExported"
    ELSE IF kind = "GeneratePublicKeyFromPrivate" THEN "PublicKeyGenerated"
    ELSE IF kind = "ProcessQrData" THEN "QrDataProcessed"
    ELSE "none"

\* p's worker takes a request that is a MainMessage
TakesRequest(p) ==
    /\ worker_in[p] # <<>>
    /\ SuccessShape(Head(worker_in[p]).type) # "none"
    /\ worker_in'[p] = Tail(worker_in[p])

\* the worker posts one response behind those it has posted, of the
\* request's success shape or Error
WorkerAnswersStep ==
    \A p \in Peers :
       TakesRequest(p)
          => /\ Len(worker_out'[p]) = Len(worker_out[p]) + 1
             /\ SubSeq(worker_out'[p], 1, Len(worker_out[p])) = worker_out[p]
             /\ worker_out'[p][Len(worker_out'[p])].type
                   \in { SuccessShape(Head(worker_in[p]).type), "Error" }

ReadyOnceFirst ==
    \A p \in Peers : hist.worker[p].ready <= 1 /\ ~hist.worker[p].early

\* C34: the worker answers every well-formed request with exactly one
\* response, the success shape of its kind or Error, in the order of the
\* requests; Ready is posted exactly once, before any other response
WorkerAnswers == []ReadyOnceFirst /\ [][WorkerAnswersStep]_vars

\* a worker took a request and posted nothing for it
WorkerSilent ==
    \E p \in Peers : hist.worker[p].silent


(***************************************************************************)
(* The two classifiers                                                     *)
(***************************************************************************)
\* both classifiers have run on the string and neither panicked
BothClassified ==
    /\ qr_pc = "done"
    /\ qr_worker.event_type # "none"
    /\ qr_route # Panic
    /\ qr_worker # Panic

\* C39: for every input string the worker's process_qr_data returns the
\* route (event type and event data) that the main-thread process_qr_data
\* dispatches
ClassifiersAgree ==
    BothClassified => qr_worker = qr_route

\* a signal or a private key is routed by the main thread to its handler
\* and by the worker to the dialog
ClassifiersDisagree ==
    /\ BothClassified
    /\ qr_route.event_type \in { "process_rtc_signal", "add_contact" }
    /\ qr_worker.event_type = "show_dialog"


(***************************************************************************)
(* The peer key and the session                                            *)
(***************************************************************************)
\* a PublicKey envelope that carries the key was delivered on connection c
ReceivedOn(c, key) ==
    \E r \in hist.delivered :
       /\ r.conn = c
       /\ RtcMessageFromStr(r.data) =
             [ok |-> TRUE, message |-> PublicKey(key)]

\* the stored peer key was received over the session held
PeerKeyFromSession ==
    \A p \in Peers :
       app[p].rtc_peer_public_key # <<>>
          => /\ app[p].rtc_connection # <<>>
             /\ ReceivedOn(app[p].rtc_connection[1],
                           app[p].rtc_peer_public_key[1])

\* a step that puts a new session in rtc_connection clears the peer key
\* and rtc_connected
SessionStartClearsStep ==
    \A p \in Peers :
       app'[p].rtc_connection # app[p].rtc_connection
          => /\ app'[p].rtc_peer_public_key = <<>>
             /\ ~app'[p].rtc_connected

\* C33: rtc_peer_public_key is present only if it was received in a
\* PublicKey envelope over the data channel of the session held in
\* rtc_connection, and starting a session in either role clears
\* rtc_peer_public_key and rtc_connected
PeerKeyOfCurrentSession ==
    []PeerKeyFromSession /\ [][SessionStartClearsStep]_vars

\* an installation that accepted an Offer holds a session that has received
\* nothing, with the peer key of the session before and rtc_connected set
PeerKeyOfPreviousSession ==
    \E p \in Peers :
       /\ app[p].rtc_connection # <<>>
       /\ ~conns[app[p].rtc_connection[1]].is_initiator
       /\ \A r \in hist.delivered : r.conn # app[p].rtc_connection[1]
       /\ app[p].rtc_peer_public_key # <<>>
       /\ app[p].rtc_connected


(***************************************************************************)
(* C35: when the handler registered with set_data_handler is given a       *)
(* string that is no RtcMessage (neither a PublicKey nor an EncryptedData  *)
(* envelope), the installation is left as it was: its peer key, chat       *)
(* history, keys and contacts are the same, nothing is queued for          *)
(* App::update and nothing is posted to the worker.                        *)
(***************************************************************************)
\* the message event at the head of c's events is handled by this step
MessageHandled(c) ==
    /\ Fires(c, "message")
    /\ conns'[c].events = Tail(conns[c].events)

UnparsedIgnoredStep ==
    \A c \in DOMAIN conns :
        (/\ MessageHandled(c)
         /\ conns[c].onmessage
         /\ ~RtcMessageFromStr(Head(conns[c].events).data).ok)
        => LET p == conns[c].owner
           IN  /\ app'[p].rtc_peer_public_key = app[p].rtc_peer_public_key
               /\ app'[p].chat_messages = app[p].chat_messages
               /\ app'[p].my_keys = app[p].my_keys
               /\ app'[p].contacts = app[p].contacts
               /\ pending' = pending
               /\ worker_in' = worker_in

UnparsedIgnored == [][UnparsedIgnoredStep]_vars

\* a string that is no envelope was handed to a registered handler, and
\* an envelope was too
UnparsedIgnoredWitness ==
    /\ \E r \in hist.delivered :
          /\ conns[r.conn].onmessage
          /\ ~RtcMessageFromStr(r.data).ok
          /\ r.data # <<>>
    /\ \E r \in hist.delivered :
          /\ r.data \in InboundData(conns[r.conn].owner)
          /\ RtcMessageFromStr(r.data).ok
          /\ RtcMessageFromStr(r.data).message.type = "encryptedData"
    /\ Settled


(***************************************************************************)
(* C36: once set_data_handler has returned Ok for a connection, every      *)
(* message event of that connection is given to the registered closure,    *)
(* exactly once: what the closure sends for the string is what the step    *)
(* queues for App::update, whether the closure was registered once or      *)
(* replaced by a later call.                                               *)
(***************************************************************************)
\* the calls of set_data_handler on c so far; each is followed by a
\* send_message of the public key, and each returned Ok
HandlerCalls(c) ==
    { r \in hist.sends : r.conn = c /\ r.type = "publicKey" }

SingleConsumerStep ==
    \A c \in DOMAIN conns :
        (MessageHandled(c) /\ HandlerCalls(c) # {})
        => pending' = [pending EXCEPT ![conns[c].owner] =
                          @ \o data_handler(Head(conns[c].events).data)]

SingleConsumer == [][SingleConsumerStep]_vars

\* set_data_handler returned Ok for a connection that had no channel, and
\* a message event of the connection found no listener
HandlerMissing ==
    \E r \in hist.delivered :
        /\ HandlerCalls(r.conn) # {}
        /\ ~conns[r.conn].onmessage
        /\ data_handler(r.data) # <<>>


(***************************************************************************)
(* C37: Msg::ProcessRtcSignal with a string that is no RtcSignalData, or   *)
(* with an Answer while rtc_connection is None, makes no Connection and    *)
(* leaves rtc_connection, rtc_connected and rtc_peer_public_key as they    *)
(* were; the connections that exist are untouched and no future is         *)
(* spawned, so a handshake can be started afterwards as before.            *)
(***************************************************************************)
\* the step is p's handling of Msg::ProcessRtcSignal with a signal it
\* does not act on
RefusesSignal(p) ==
    /\ Handles(p, "ProcessRtcSignal")
    /\ Refused(p, RtcSignalDataFromStr(Head(pending[p]).data))
    /\ Len(pending'[p]) <= Len(pending[p])
    /\ pending'[p] # pending[p]

SignalRefusedStep ==
    \A p \in Peers :
        RefusesSignal(p)
        => /\ conns' = conns
           /\ app'[p].rtc_connection = app[p].rtc_connection
           /\ app'[p].rtc_connected = app[p].rtc_connected
           /\ app'[p].rtc_peer_public_key = app[p].rtc_peer_public_key
           /\ \A i \in DOMAIN pending'[p] : pending'[p][i].msg = "ShowDialog"
           /\ worker_in' = worker_in

SignalRefused == [][SignalRefusedStep]_vars

\* an installation was given a string that is no signal and an Answer
\* while it had no connection, and a handshake it started later has
\* completed
SignalRefusedWitness ==
    \E p \in Peers :
        /\ \E r \in hist.refused : r.peer = p /\ ~r.parsed
        /\ \E r \in hist.refused : r.peer = p /\ r.parsed
        /\ Exchanged(p)
        /\ \A r \in hist.refused : r.peer = p => app[p].rtc_connection[1] > r.conns


(***************************************************************************)
(* C38: when nothing is in flight (no message is queued for App::update,   *)
(* the worker has no request and no response is waiting), every entry of   *)
(* chat_messages with is_sent = true is the plaintext of an EncryptedData  *)
(* envelope that was handed to the data channel, which has carried it to   *)
(* the other end.                                                          *)
(***************************************************************************)
\* nothing is queued on the main thread or between it and the worker
Quiet == Settled /\ \A p \in Peers : worker_out[p] = <<>>

\* every message the channels carry has reached the handler of its end
NothingCarried ==
    \A c \in DOMAIN conns :
        \A i \in DOMAIN conns[c].events : conns[c].events[i].type # "message"

\* the texts p's chat shows as sent
SentEntries(p) ==
    { app[p].chat_messages[i].content :
         i \in { j \in DOMAIN app[p].chat_messages :
                    app[p].chat_messages[j].is_sent } }

SentWasTransmitted ==
    (Quiet /\ NothingCarried)
    => \A p \in Peers : \A text \in SentEntries(p) :
          \E ciphertext \in ReceivedCiphertexts : Opens(ciphertext, text)

\* with nothing in flight, the chat of an installation shows a message as
\* sent and no EncryptedData envelope was handed to a channel
SentNotTransmitted ==
    /\ Quiet
    /\ NothingCarried
    /\ \E p \in Peers : SentEntries(p) # {}
    /\ \A r \in hist.sends : r.type = "encryptedData" => ~r.handed

====
